---------------------------- MODULE Spec2Model ----------------------------
(***************************************************************************)
(* Verification model of the gemini-cli-go gateway core:                    *)
(*   - ModelRegistry   (pkg/config/config.go): variant names, base names    *)
(*   - StreamingRelay  (google client StreamResponse + chat stream handler) *)
(*   - CredentialManager (pkg/auth/auth.go) and the dispatcher that uses it *)
(* Three specifications share the variables; each one moves only its own    *)
(* component and leaves the other components at their initial values.       *)
(***************************************************************************)
EXTENDS Integers, Sequences, FiniteSets, TLC

VARIABLES
    \* ---- ModelRegistry ----
    nmBase,      \* the base model the variant is derived from
    nmFlags,     \* the variant flags used for the derivation
    nmName,      \* the model name handed to the gateway ("" before derivation)
    nmOut,       \* the "model" field of the remote payload ("" before it is built)
    nmCatalog,   \* Config.SupportedModels (<<>> before the configuration is loaded)
    nmBudget,    \* GetThinkingBudget(nmName) (-1 before it is read)
    nmThoughts,  \* ShouldIncludeThoughts(nmName) (TRUE before it is read)
    nmPc,        \* "pick" | "named" | "built" | "configured"
    \* ---- StreamingRelay: remote stream, relay worker, chat stream handler ----
    rlRemote,    \* the lines of the remote event stream (fixed per behaviour)
    rlPos,       \* number of lines the worker's scanner has consumed
    wPc,         \* worker: "idle" | "scan" | "send" | "senderr" | "closing" | "exit"
    wPending,    \* the frame the worker is sending on the channel (<<>> if none)
    wErr,        \* scanner.Err() is non-nil
    chClosed,    \* close(ch) has run
    bodyClosed,  \* resp.Body.Close() has run (by the worker or by the handler)
    emitted,     \* frames handed over the channel so far, in order
    hPc,         \* handler: "dispatch" | "recv" | "write" | "final" | "returned"
    hChunk,      \* the chunk the handler received and is writing (<<>> if none)
    written,     \* frames written to the client so far, in order
    writeFailed, \* a write to the client failed
    clientGone,  \* the client has disconnected
    outcome,     \* what SendGeminiRequest gave: "none" | "error" | "status" | "ok"
    \* ---- ProtocolTranslator, inbound -> remote: one request and its payload ----
    pyPath,      \* "chat" | "native"
    pyModel,     \* the model name of the request (body field or URL path)
    pyBody,      \* the decoded JSON body of the inbound request
    pyOut,       \* <<>> or <<payload>>: the remote payload that was built
    pyPrev,      \* <<>> or <<payload>>: the payload a rebuild started from
    pyPc,        \* "idle" | "inbound" | "built" | "rebuilt"
    pyCaller,    \* <<>>, or <<o>>: the native caller's request object as it reads
                 \* after BuildGeminiPayloadFromNative returned (pyBody: before)
    \* ---- ProtocolTranslator: a chat request's messages, a remote candidate ----
    trSegs,      \* the pieces the first message's text is written from, in order
    trMessages,  \* request.Messages of the inbound chat request (<<>>: no request)
    trContents,  \* the contents OpenAIRequestToGemini built (<<>> before)
    trCandidate, \* <<>> or <<candidate>>: a candidate of the remote's response
    trFull,      \* <<>> or <<choice>>: GeminiResponseToOpenAI's choice for it
    trChunk,     \* <<>> or <<choice>>: GeminiStreamChunkToOpenAI's choice for it
    trPc,        \* "idle" | "inbound" | "sent" | "rejected" | "answered"
    \* ---- One inbound request: authentication, generation call, answer ----
    upPath,      \* "chat" | "native": the route the request came in on
    upAuth,      \* what the request presents: [key, goog, authorization]
    upCredsAsked, \* SendGeminiRequest has asked for the credential
    upStream,    \* the request asks for a streamed answer
    upRemote,    \* <<>>, or <<answer>>: a transport failure or [status, body]
    upCalls,     \* generation calls issued for the request (httpClient.Do)
    upClient,    \* <<>>, or <<answer>>: [status, body] or [status, frames]
    upPc,        \* "idle" | "auth" | "rejected" | "creds" | "send" | "called"
                 \* | "relay" | "done"
    \* ---- Concurrent requests on the shared state of pkg/auth ----
    ccToken,     \* token object 0: [at, rt, tt, ex], each the refresh it came from
    ccCred,      \* the token object the package variable credentials points to
    ccStale,     \* the expiry of the token as loaded has been reached
    ccProject,   \* userProjectID
    ccOnboarded, \* onboardingDone
    ccEnvProject, \* GOOGLE_CLOUD_PROJECT is set
    ccReaders,   \* the requests that hold credentialsMux for reading
    ccWriter,    \* the request that holds credentialsMux for writing (0: none)
    ccPc,        \* where each request is
    ccTok,       \* the token object each request got from GetCredentials
    ccRet,       \* the caller of each request's RefreshToken: "sg" | "dp" | "ob"
    ccSeen,      \* what each request's latest Valid() read: [at, ex]
    \* ---- CredentialManager: process environment and credential file ----
    envCreds,        \* GEMINI_CREDENTIALS: [kind |-> "unset"] or [kind |-> "json", obj]
    envGAC,          \* GOOGLE_APPLICATION_CREDENTIALS is set
    envProject,      \* GOOGLE_CLOUD_PROJECT ("" when unset)
    credFile,        \* the credential file: [kind |-> "absent"] or [kind |-> "json", obj]
    now,             \* the clock
    \* ---- CredentialManager: package-level state of pkg/auth ----
    credentials,     \* <<>> (nil) or <<token>>; a request's token is this object
    userProjectID,
    onboardingDone,
    credsFromEnv,
    muxRegistered,   \* http.HandleFunc("/") has been called on the default mux
    \* ---- the caller: performStartupSetup, then SendGeminiRequest per request ----
    caller,          \* "startup" | "request"
    pc,              \* "creds" | "refresh" | "project" | "onboard" | "probe" | "poll"
                     \* | "sleep" | "send" | "done"
    projID,          \* the project ID the caller got from GetUserProjectID
    result,          \* how the caller ended: "none" | "ok" | an error
    nReq,            \* requests started so far
    \* ---- observations (history variables, not program state) ----
    acq,             \* what the last GetCredentials call saw and did
    res,             \* what the last GetUserProjectID call saw and did
    ob,              \* what the current/last OnboardUser call saw and did
    steps            \* what the caller has done so far, in order: [step, ok] with
                     \* step "acquire" | "refresh" | "project" | "onboard" | "send"

nameVars == <<nmBase, nmFlags, nmName, nmOut, nmCatalog, nmBudget, nmThoughts, nmPc>>

relayVars == <<rlRemote, rlPos, wPc, wPending, wErr, chClosed, bodyClosed, emitted,
               hPc, hChunk, written, writeFailed, clientGone, outcome>>

payloadVars == <<pyPath, pyModel, pyBody, pyOut, pyPrev, pyPc, pyCaller>>

envVars == <<envCreds, envGAC, envProject>>

authVars == <<envVars, credFile, now, credentials, userProjectID, onboardingDone,
              credsFromEnv, muxRegistered, caller, pc, projID, result, nReq, acq, res, ob,
              steps>>

translateVars == <<trSegs, trMessages, trContents, trCandidate, trFull, trChunk, trPc>>

upstreamVars == <<upPath, upAuth, upCredsAsked, upStream, upRemote, upCalls, upClient, upPc>>

sharedVars == <<ccToken, ccCred, ccStale, ccProject, ccOnboarded, ccEnvProject,
                ccReaders, ccWriter, ccPc, ccTok, ccRet, ccSeen>>

vars == <<nameVars, relayVars, authVars, payloadVars, translateVars, upstreamVars,
          sharedVars>>

\* What each component leaves alone.
notNames == <<relayVars, authVars, payloadVars, translateVars, upstreamVars, sharedVars>>
notRelay == <<nameVars, authVars, payloadVars, translateVars, upstreamVars, sharedVars>>
notAuth == <<nameVars, relayVars, payloadVars, translateVars, upstreamVars, sharedVars>>
notPayload == <<nameVars, relayVars, authVars, translateVars, upstreamVars, sharedVars>>
notTranslate == <<nameVars, relayVars, authVars, payloadVars, upstreamVars, sharedVars>>
notUpstream == <<nameVars, relayVars, authVars, payloadVars, translateVars, sharedVars>>
notShared == <<nameVars, relayVars, authVars, payloadVars, translateVars, upstreamVars>>

(***************************************************************************)
(* Go strings helpers (package strings), on TLC strings.                    *)
(***************************************************************************)
HasPrefix(s, prefix) ==
    /\ Len(s) >= Len(prefix)
    /\ SubSeq(s, 1, Len(prefix)) = prefix

HasSuffix(s, suffix) ==
    /\ Len(s) >= Len(suffix)
    /\ SubSeq(s, Len(s) - Len(suffix) + 1, Len(s)) = suffix

Contains(s, substr) ==
    \E i \in 1..(Len(s) - Len(substr) + 1) : SubSeq(s, i, i + Len(substr) - 1) = substr

(***************************************************************************)
(* ModelRegistry: pkg/config/config.go                                      *)
(***************************************************************************)
\* getBaseModels: the names of the fixed base catalog; every entry lists
\* generateContent and streamGenerateContent as supported methods.
getBaseModels ==
    << [Name |-> "models/gemini-2.5-pro-preview-03-25",
        SupportedGenerationMethods |-> <<"generateContent", "streamGenerateContent">>],
       [Name |-> "models/gemini-2.5-pro-preview-05-06",
        SupportedGenerationMethods |-> <<"generateContent", "streamGenerateContent">>],
       [Name |-> "models/gemini-2.5-pro-preview-06-05",
        SupportedGenerationMethods |-> <<"generateContent", "streamGenerateContent">>],
       [Name |-> "models/gemini-2.5-pro",
        SupportedGenerationMethods |-> <<"generateContent", "streamGenerateContent">>],
       [Name |-> "models/gemini-2.5-flash-preview-05-20",
        SupportedGenerationMethods |-> <<"generateContent", "streamGenerateContent">>],
       [Name |-> "models/gemini-2.5-flash-preview-04-17",
        SupportedGenerationMethods |-> <<"generateContent", "streamGenerateContent">>],
       [Name |-> "models/gemini-2.5-flash",
        SupportedGenerationMethods |-> <<"generateContent", "streamGenerateContent">>],
       [Name |-> "models/gemini-2.5-flash-image-preview",
        SupportedGenerationMethods |-> <<"generateContent", "streamGenerateContent">>] >>

\* contains(slice, item)
contains(slice, item) == \E i \in 1..Len(slice) : slice[i] = item

\* The variants one loop of generateSupportedModels appends for the base
\* models from position i on: loop "search", "thinking" or "combined".
RECURSIVE variantsOf(_, _)
variantsOf(loop, i) ==
    IF i > Len(getBaseModels) THEN <<>>
    ELSE LET model == getBaseModels[i]
             image == Contains(model.Name, "gemini-2.5-flash-image")
             generates == contains(model.SupportedGenerationMethods, "generateContent")
             family == \/ Contains(model.Name, "gemini-2.5-flash")
                       \/ Contains(model.Name, "gemini-2.5-pro")
             added ==
                CASE loop = "search" ->
                        IF ~image /\ generates
                        THEN << [model EXCEPT !.Name = model.Name \o "-search"] >>
                        ELSE <<>>
                  [] loop = "thinking" ->
                        IF ~image /\ generates /\ family
                        THEN << [model EXCEPT !.Name = model.Name \o "-nothinking"],
                                [model EXCEPT !.Name = model.Name \o "-maxthinking"] >>
                        ELSE <<>>
                  [] loop = "combined" ->
                        IF generates /\ family
                        THEN << [model EXCEPT !.Name = model.Name \o "-search-nothinking"],
                                [model EXCEPT !.Name = model.Name \o "-search-maxthinking"] >>
                        ELSE <<>>
         IN added \o variantsOf(loop, i + 1)

\* generateSupportedModels
generateSupportedModels ==
    getBaseModels \o variantsOf("search", 1) \o variantsOf("thinking", 1)
                  \o variantsOf("combined", 1)

\* The suffix generateSupportedModels appends for a set of variant flags:
\* "-search", "-nothinking", "-maxthinking", "-search-nothinking",
\* "-search-maxthinking" (search first, then the thinking suffix).
VariantSuffix(flags) ==
    (IF "search" \in flags THEN "-search" ELSE "") \o
    (IF "nothinking" \in flags THEN "-nothinking" ELSE "") \o
    (IF "maxthinking" \in flags THEN "-maxthinking" ELSE "")

\* The variant name generateSupportedModels derives: model.Name + suffix.
VariantName(base, flags) == base \o VariantSuffix(flags)

\* GetBaseModelName: the suffixes are tried in this order and the FIRST one
\* that matches is cut off; the function returns at once (one suffix only).
suffixes == <<"-maxthinking", "-nothinking", "-search">>

RECURSIVE StripFirstSuffix(_, _)
StripFirstSuffix(modelName, i) ==
    IF i > Len(suffixes) THEN modelName
    ELSE IF HasSuffix(modelName, suffixes[i])
         THEN SubSeq(modelName, 1, Len(modelName) - Len(suffixes[i]))
         ELSE StripFirstSuffix(modelName, i + 1)

GetBaseModelName(modelName) == StripFirstSuffix(modelName, 1)

IsSearchModel(modelName) == Contains(modelName, "-search")

IsNothinkingModel(modelName) == Contains(modelName, "-nothinking")

IsMaxthinkingModel(modelName) == Contains(modelName, "-maxthinking")

\* (mutant) the pro-class budget also for flash-class nothinking names.
GetThinkingBudget_proOnly(modelName) ==
    IF IsNothinkingModel(modelName) THEN 128
    ELSE IF IsMaxthinkingModel(modelName) THEN 32768
    ELSE -1

\* GetThinkingBudget
GetThinkingBudget(modelName) ==
    LET baseModel == GetBaseModelName(modelName)
    IN IF IsNothinkingModel(modelName)
       THEN IF Contains(baseModel, "gemini-2.5-flash") THEN 0
            ELSE IF Contains(baseModel, "gemini-2.5-pro") THEN 128
            ELSE -1
       ELSE IF IsMaxthinkingModel(modelName)
       THEN IF Contains(baseModel, "gemini-2.5-flash") THEN 24576
            ELSE IF Contains(baseModel, "gemini-2.5-pro") THEN 32768
            ELSE -1
       ELSE -1

\* (mutant) thoughts are always included.
ShouldIncludeThoughts_always(modelName) == TRUE

\* ShouldIncludeThoughts
ShouldIncludeThoughts(modelName) ==
    IF IsNothinkingModel(modelName)
    THEN Contains(GetBaseModelName(modelName), "gemini-2.5-pro")
    ELSE TRUE

\* The "model" field of the remote payload: OpenAIRequestToGemini sets it to
\* GetBaseModelName(request.Model) and BuildGeminiPayloadFromOpenAI copies it;
\* BuildGeminiPayloadFromNative sets GetBaseModelName(modelFromPath).
PayloadModel(modelName) == GetBaseModelName(modelName)

(***************************************************************************)
(* JSON values as the Go code sees them after json.Unmarshal into           *)
(* map[string]interface{}: an object is a record (a key is absent when it   *)
(* is not in the DOMAIN), an optional Go pointer is <<>> (nil) or <<v>>.    *)
(* A value whose dynamic type the code tests is tagged with its JSON type.  *)
(***************************************************************************)
JStr(s) == [t |-> "string", v |-> s]
JNum(n) == [t |-> "number", v |-> n]
JNull == [t |-> "null"]
EmptyObj == [k \in {} |-> 0]

\* m[key] of a Go map: the value, or nil when the key is absent.
Field(m, key) == IF key \in DOMAIN m THEN m[key] ELSE JNull

(***************************************************************************)
(* ProtocolTranslator, remote -> outbound: pkg/transformers/openai.go       *)
(***************************************************************************)
\* (mutant) RECITATION is not in the table.
mapFinishReason_noRecitation(reason) ==
    IF reason.t = "string"
    THEN CASE reason.v = "STOP" -> <<"stop">>
           [] reason.v = "MAX_TOKENS" -> <<"length">>
           [] reason.v = "SAFETY" -> <<"content_filter">>
           [] OTHER -> <<>>
    ELSE <<>>

\* mapFinishReason(reason interface{}) *string
mapFinishReason(reason) ==
    IF reason.t = "string"
    THEN CASE reason.v = "STOP" -> <<"stop">>
           [] reason.v = "MAX_TOKENS" -> <<"length">>
           [] reason.v \in {"SAFETY", "RECITATION"} -> <<"content_filter">>
           [] OTHER -> <<>>
    ELSE <<>>

\* getInt(value, defaultValue): a JSON number is truncated to int, nil gives
\* the default (the string case is not used by the translators' callers).
getInt(value, defaultValue) ==
    IF value.t = "number" THEN value.v ELSE defaultValue

\* strings.Join(elems, sep)
RECURSIVE Join(_, _)
Join(elems, sep) ==
    IF Len(elems) = 0 THEN ""
    ELSE IF Len(elems) = 1 THEN elems[1]
    ELSE elems[1] \o sep \o Join(Tail(elems), sep)

\* The loop over a candidate's parts (openai.go 220-248): the visible pieces.
\* A text part that is not thought-flagged is kept; an inlineData part with
\* non-empty data and an image/ mime type becomes a markdown data-URI image.
RECURSIVE contentPartsOf(_)
contentPartsOf(parts) ==
    IF Len(parts) = 0 THEN <<>>
    ELSE LET part == parts[1]
             rest == contentPartsOf(Tail(parts))
         IN IF "text" \in DOMAIN part
            THEN IF "thought" \in DOMAIN part /\ part.thought
                 THEN rest
                 ELSE <<part.text>> \o rest
            ELSE IF "inlineData" \in DOMAIN part /\ "data" \in DOMAIN part.inlineData
                    /\ part.inlineData.data # ""
                 THEN LET mimeType == IF "mimeType" \in DOMAIN part.inlineData
                                      THEN part.inlineData.mimeType ELSE "image/png"
                      IN IF HasPrefix(mimeType, "image/")
                         THEN <<"![image](data:" \o mimeType \o ";base64,"
                                  \o part.inlineData.data \o ")">> \o rest
                         ELSE rest
                 ELSE rest

\* (mutant) the thought-flagged parts are dropped.
reasoningContentOf_dropped(parts) == ""

\* The same loop: the thought-flagged text parts, concatenated.
RECURSIVE reasoningContentOf(_)
reasoningContentOf(parts) ==
    IF Len(parts) = 0 THEN ""
    ELSE LET part == parts[1]
         IN (IF "text" \in DOMAIN part /\ "thought" \in DOMAIN part /\ part.thought
             THEN part.text ELSE "") \o reasoningContentOf(Tail(parts))

\* One stream choice (openai.go 207-269). The mapped role is computed by the
\* code but OpenAIDelta has no role field, so it does not reach the output.
StreamChoice(candidateMap) ==
    LET content == IF "content" \in DOMAIN candidateMap
                   THEN candidateMap.content ELSE EmptyObj
        parts == IF "parts" \in DOMAIN content THEN content.parts ELSE <<>>
        contentText == Join(contentPartsOf(parts), "\n\n")
        reasoningContent == reasoningContentOf(parts)
    IN [index |-> getInt(Field(candidateMap, "index"), 0),
        delta |-> [content |-> IF contentText # "" THEN <<contentText>> ELSE <<>>,
                   reasoning_content |->
                       IF reasoningContent # "" THEN <<reasoningContent>> ELSE <<>>],
        finish_reason |-> mapFinishReason(Field(candidateMap, "finishReason"))]

\* GeminiStreamChunkToOpenAI(geminiChunk, model, responseID); the Created
\* timestamp (time.Now) is left out of the modelled object.
GeminiStreamChunkToOpenAI(geminiChunk, model, responseID) ==
    LET candidates == IF "candidates" \in DOMAIN geminiChunk
                      THEN geminiChunk.candidates ELSE <<>>
    IN [id |-> responseID,
        object |-> "chat.completion.chunk",
        model |-> model,
        choices |-> [i \in 1..Len(candidates) |-> StreamChoice(candidates[i])]]

\* (mutant) the full response keeps the remote's role name.
FullChoice_roleKept(candidateMap) ==
    [index |-> getInt(Field(candidateMap, "index"), 0),
     message |-> [role |-> candidateMap.content.role,
                  content |-> Join(contentPartsOf(candidateMap.content.parts), "\n\n"),
                  reasoning_content |->
                      IF reasoningContentOf(candidateMap.content.parts) # ""
                      THEN <<reasoningContentOf(candidateMap.content.parts)>> ELSE <<>>],
     finish_reason |-> mapFinishReason(Field(candidateMap, "finishReason"))]

\* One choice of the full response (openai.go 116-188). The loop over the
\* candidate's parts (132-162) is, statement for statement, the loop of the
\* stream translation (217-247).
FullChoice(candidateMap) ==
    LET content == IF "content" \in DOMAIN candidateMap
                   THEN candidateMap.content ELSE EmptyObj
        role == IF "role" \in DOMAIN content THEN content.role ELSE ""
        parts == IF "parts" \in DOMAIN content THEN content.parts ELSE <<>>
        reasoningContent == reasoningContentOf(parts)
    IN [index |-> getInt(Field(candidateMap, "index"), 0),
        message |-> [role |-> IF role = "model" THEN "assistant" ELSE role,
                     content |-> Join(contentPartsOf(parts), "\n\n"),
                     reasoning_content |->
                         IF reasoningContent # "" THEN <<reasoningContent>> ELSE <<>>],
        finish_reason |-> mapFinishReason(Field(candidateMap, "finishReason"))]

\* GeminiResponseToOpenAI(geminiResponse, model); the random ID and the
\* Created timestamp are left out of the modelled object.
GeminiResponseToOpenAI(geminiResponse, model) ==
    LET candidates == IF "candidates" \in DOMAIN geminiResponse
                      THEN geminiResponse.candidates ELSE <<>>
    IN [object |-> "chat.completion",
        model |-> model,
        choices |-> [i \in 1..Len(candidates) |-> FullChoice(candidates[i])]]

(***************************************************************************)
(* StreamingRelay: Client.StreamResponse / parseChunk (google client) and   *)
(* OpenAIHandler.handleStreamingResponse (pkg/routes/openai.go).            *)
(*                                                                          *)
(* A remote line is [head, obj, id]: its text is head followed by the JSON  *)
(* text of obj when obj = <<o>>; id is the line's position in the stream.   *)
(* An outbound frame "data: <payload>\n\n" is a record: DataFrame(j) for a  *)
(* JSON payload j, DoneFrame for the literal [DONE] payload.                *)
(***************************************************************************)
MaxLines == 3

DataFrame(j) == [prefix |-> "data: ", json |-> j]
DoneFrame == [prefix |-> "data: ", raw |-> "[DONE]"]

\* The remote chunk carried by the event at position id.
RemoteChunk(id) ==
    [candidates |-> << [content |-> [role |-> "model",
                                     parts |-> << [text |-> "t" \o ToString(id)] >>],
                        finishReason |-> JStr("STOP"),
                        index |-> JNum(0)] >>]

LineKinds == {"keepalive", "blank", "emptydata", "done", "bad", "wrapped", "bare"}

RemoteLine(kind, id) ==
    CASE kind = "keepalive" -> [head |-> ": keep-alive", obj |-> <<>>, id |-> id]
      [] kind = "blank"     -> [head |-> "", obj |-> <<>>, id |-> id]
      [] kind = "emptydata" -> [head |-> "data: ", obj |-> <<>>, id |-> id]
      [] kind = "done"      -> [head |-> "data: [DONE]", obj |-> <<>>, id |-> id]
      [] kind = "bad"       -> [head |-> "data: {oops", obj |-> <<>>, id |-> id]
      [] kind = "wrapped"   -> [head |-> "data: ",
                                obj |-> << [response |-> RemoteChunk(id)] >>, id |-> id]
      [] kind = "bare"      -> [head |-> "data: ", obj |-> << RemoteChunk(id) >>, id |-> id]

RemoteStreams ==
    UNION { { [i \in 1..n |-> RemoteLine(k[i], i)] : k \in [1..n -> LineKinds] }
            : n \in 0..MaxLines }

\* parseChunk(chunk): the decoded object, or nil (<<>>) when chunk is not the
\* JSON text of an object.
parseChunk(dataText, dataObj) ==
    IF dataText = "" /\ dataObj # <<>> THEN dataObj ELSE <<>>

\* (mutant) the loop body without the nil check on parseChunk's result: an
\* undecodable payload is forwarded as a "data: null" frame.
relayLine_noNilCheck(line) ==
    IF HasPrefix(line.head, "data: ")
    THEN LET dataText == SubSeq(line.head, 7, Len(line.head))
             isEmpty == dataText = "" /\ line.obj = <<>>
             isDone == dataText = "[DONE]" /\ line.obj = <<>>
         IN IF ~isEmpty /\ ~isDone
            THEN LET obj == parseChunk(dataText, line.obj)
                 IN IF obj # <<>> /\ "response" \in DOMAIN obj[1]
                    THEN << DataFrame(obj[1].response) >>
                    ELSE IF obj # <<>> THEN << DataFrame(obj[1]) >>
                    ELSE << DataFrame(EmptyObj) >>
            ELSE <<>>
    ELSE <<>>

\* The body of the scanner loop for one line (StreamResponse 282-298): the
\* frames sent on the channel for it, none or one.
relayLine(line) ==
    IF HasPrefix(line.head, "data: ")
    THEN LET dataText == SubSeq(line.head, 7, Len(line.head))
             isEmpty == dataText = "" /\ line.obj = <<>>
             isDone == dataText = "[DONE]" /\ line.obj = <<>>
         IN IF ~isEmpty /\ ~isDone
            THEN LET obj == parseChunk(dataText, line.obj)
                 IN IF obj # <<>>
                    THEN IF "response" \in DOMAIN obj[1]
                         THEN << DataFrame(obj[1].response) >>
                         ELSE << DataFrame(obj[1]) >>
                    ELSE <<>>
            ELSE <<>>
    ELSE <<>>

\* (mutant) a read failure ends the relay silently.
scanErrFrames_silent == <<>>

\* StreamResponse 301-313: what is sent when scanner.Err() is non-nil.
scanErrFrames ==
    << DataFrame([error |-> [message |-> "Streaming error: read failed",
                             type |-> "api_error",
                             code |-> 500]]) >>

\* (mutant) the error frame without the terminal marker.
sendStreamingError_noDone(message, code) ==
    << DataFrame([error |-> [message |-> message,
                             type |-> IF code # 404 THEN "api_error"
                                      ELSE "invalid_request_error",
                             code |-> code]]) >>

\* sendStreamingError(message, code): the frames it writes.
sendStreamingError(message, code) ==
    << DataFrame([error |-> [message |-> message,
                             type |-> IF code # 404 THEN "api_error"
                                      ELSE "invalid_request_error",
                             code |-> code]]),
       DoneFrame >>

\* (mutant) the remote's message is never taken over.
createErrorResponse_generic(statusCode, body) ==
    [StatusCode |-> statusCode,
     Body |-> [error |-> [message |-> "Google API error: " \o ToString(statusCode),
                          type |-> "invalid_request_error",
                          code |-> statusCode]]]

\* createErrorResponse(statusCode, body): body is <<>> (empty or not JSON) or
\* <<o>> for the JSON object o.
createErrorResponse(statusCode, body) ==
    LET errorMessage ==
            IF body # <<>> /\ "error" \in DOMAIN body[1]
               /\ "message" \in DOMAIN body[1].error
            THEN body[1].error.message
            ELSE "Google API error: " \o ToString(statusCode)
    IN [StatusCode |-> statusCode,
        Body |-> [error |-> [message |-> errorMessage,
                             type |-> "invalid_request_error",
                             code |-> statusCode]]]

\* handleStreamingErrorResponse(c, resp): the frames it writes.
handleStreamingErrorResponse(resp) ==
    IF "error" \in DOMAIN resp.Body
    THEN sendStreamingError(resp.Body.error.message, resp.StatusCode)
    ELSE sendStreamingError("API error: " \o ToString(resp.StatusCode), resp.StatusCode)

\* handleNonStreamingErrorResponse(c, resp): the status and body of c.JSON.
handleNonStreamingErrorResponse(resp) ==
    IF "error" \in DOMAIN resp.Body
    THEN [status |-> resp.StatusCode,
          body |-> [error |-> [message |-> resp.Body.error.message,
                               type |-> resp.Body.error.type,
                               code |-> resp.Body.error.code]]]
    ELSE [status |-> resp.StatusCode,
          body |-> [error |-> [message |-> "API error: " \o ToString(resp.StatusCode),
                               type |-> IF resp.StatusCode # 404 THEN "api_error"
                                        ELSE "invalid_request_error",
                               code |-> resp.StatusCode]]]

\* Non-success statuses and error bodies the remote may answer with.
RemoteErrorStatuses == {404, 429}
RemoteErrorBodies == { <<>>, << [error |-> [message |-> "quota exceeded"]] >> }

RelayIdle ==
    /\ rlRemote = <<>>
    /\ rlPos = 0
    /\ wPc = "idle"
    /\ wPending = <<>>
    /\ wErr = FALSE
    /\ chClosed = FALSE
    /\ bodyClosed = FALSE
    /\ emitted = <<>>
    /\ hPc = "idle"
    /\ hChunk = <<>>
    /\ written = <<>>
    /\ writeFailed = FALSE
    /\ clientGone = FALSE
    /\ outcome = "none"

NamesIdle ==
    /\ nmBase = ""
    /\ nmFlags = {}
    /\ nmName = ""
    /\ nmOut = ""
    /\ nmCatalog = <<>>
    /\ nmBudget = -1
    /\ nmThoughts = TRUE
    /\ nmPc = "idle"

\* No inbound request is being translated.
PayloadIdle ==
    /\ pyPath = "chat"
    /\ pyModel = ""
    /\ pyBody = <<>>
    /\ pyOut = <<>>
    /\ pyPrev = <<>>
    /\ pyPc = "idle"
    /\ pyCaller = <<>>

\* No request is running against the shared state.
SharedIdle ==
    /\ ccToken = [at |-> 0, rt |-> 0, tt |-> 0, ex |-> 0]
    /\ ccCred = 0
    /\ ccStale = FALSE
    /\ ccProject = ""
    /\ ccOnboarded = FALSE
    /\ ccEnvProject = FALSE
    /\ ccReaders = {}
    /\ ccWriter = 0
    /\ ccPc = <<>>
    /\ ccTok = <<>>
    /\ ccRet = <<>>
    /\ ccSeen = <<>>

\* No generation call is being made.
UpstreamIdle ==
    /\ upPath = "chat"
    /\ upAuth = [key |-> "", goog |-> "", authorization |-> ""]
    /\ upCredsAsked = FALSE
    /\ upStream = FALSE
    /\ upRemote = <<>>
    /\ upCalls = 0
    /\ upClient = <<>>
    /\ upPc = "idle"

\* No message and no candidate is being translated.
TranslateIdle ==
    /\ trSegs = <<>>
    /\ trMessages = <<>>
    /\ trContents = <<>>
    /\ trCandidate = <<>>
    /\ trFull = <<>>
    /\ trChunk = <<>>
    /\ trPc = "idle"

\* The CredentialManager before main() has touched it, with nothing configured.
AuthIdle ==
    /\ envCreds = [kind |-> "unset"]
    /\ envGAC = FALSE
    /\ envProject = ""
    /\ credFile = [kind |-> "absent"]
    /\ now = 1
    /\ credentials = <<>>
    /\ userProjectID = ""
    /\ onboardingDone = FALSE
    /\ credsFromEnv = FALSE
    /\ muxRegistered = FALSE
    /\ caller = "startup"
    /\ pc = "creds"
    /\ projID = ""
    /\ result = "none"
    /\ nReq = 0
    /\ acq = [called |-> FALSE]
    /\ res = [called |-> FALSE, known |-> FALSE]
    /\ ob = [called |-> FALSE]
    /\ steps = <<>>

RelayInit ==
    /\ rlRemote \in RemoteStreams
    /\ rlPos = 0
    /\ wPc = "idle"
    /\ wPending = <<>>
    /\ wErr = FALSE
    /\ chClosed = FALSE
    /\ bodyClosed = FALSE
    /\ emitted = <<>>
    /\ hPc = "dispatch"
    /\ hChunk = <<>>
    /\ written = <<>>
    /\ writeFailed = FALSE
    /\ clientGone = FALSE
    /\ outcome = "none"
    /\ NamesIdle
    /\ AuthIdle
    /\ PayloadIdle
    /\ TranslateIdle
    /\ UpstreamIdle
    /\ SharedIdle

\* c.Writer.Write of a list of frames whose errors are not checked
\* (sendStreamingError): nothing reaches a client that is gone.
WriteUnchecked(frames) ==
    IF clientGone
    THEN /\ writeFailed' = TRUE
         /\ UNCHANGED written
    ELSE /\ written' = written \o frames
         /\ UNCHANGED writeFailed

\* handleStreamingResponse 117-122: SendGeminiRequest returned an error.
DispatchError ==
    /\ hPc = "dispatch"
    /\ outcome' = "error"
    /\ WriteUnchecked(sendStreamingError("Streaming request failed: dispatch", 500))
    /\ hPc' = "returned"
    /\ UNCHANGED <<rlRemote, rlPos, wPc, wPending, wErr, chClosed, bodyClosed, emitted,
                   hChunk, clientGone>>
    /\ UNCHANGED notRelay

\* sendStreamingRequest 117-123 and handleStreamingResponse 125-129: the
\* remote answered with a non-success status; the handler's deferred
\* resp.Body.Close() runs on return.
DispatchStatus ==
    /\ hPc = "dispatch"
    /\ \E status \in RemoteErrorStatuses, body \in RemoteErrorBodies :
          WriteUnchecked(handleStreamingErrorResponse(createErrorResponse(status, body)))
    /\ outcome' = "status"
    /\ bodyClosed' = TRUE
    /\ hPc' = "returned"
    /\ UNCHANGED <<rlRemote, rlPos, wPc, wPending, wErr, chClosed, emitted,
                   hChunk, clientGone>>
    /\ UNCHANGED notRelay

\* handleStreamingResponse 131-133: status 200, StreamResponse starts the worker.
DispatchOK ==
    /\ hPc = "dispatch"
    /\ outcome' = "ok"
    /\ wPc' = "scan"
    /\ hPc' = "recv"
    /\ UNCHANGED <<rlRemote, rlPos, wPending, wErr, chClosed, bodyClosed, emitted,
                   hChunk, written, writeFailed, clientGone>>
    /\ UNCHANGED notRelay

\* scanner.Scan() returns a line; the loop body runs up to the channel send.
WorkerScan ==
    /\ wPc = "scan"
    /\ rlPos < Len(rlRemote)
    /\ rlPos' = rlPos + 1
    /\ LET out == relayLine(rlRemote[rlPos + 1])
       IN IF out = <<>>
          THEN UNCHANGED <<wPc, wPending>>
          ELSE /\ wPending' = out
               /\ wPc' = "send"
    /\ UNCHANGED <<rlRemote, wErr, chClosed, bodyClosed, emitted,
                   hPc, hChunk, written, writeFailed, clientGone, outcome>>
    /\ UNCHANGED notRelay

\* scanner.Scan() returns false at the end of the stream, scanner.Err() is nil.
WorkerEOF ==
    /\ wPc = "scan"
    /\ rlPos = Len(rlRemote)
    /\ wPc' = "closing"
    /\ UNCHANGED <<rlRemote, rlPos, wPending, wErr, chClosed, bodyClosed, emitted,
                   hPc, hChunk, written, writeFailed, clientGone, outcome>>
    /\ UNCHANGED notRelay

\* scanner.Scan() returns false because the read failed (transport failure,
\* cancelled request context, body closed under the reader).
WorkerReadFail ==
    /\ wPc = "scan"
    /\ wErr' = TRUE
    /\ IF scanErrFrames = <<>>
       THEN /\ wPc' = "closing"
            /\ UNCHANGED wPending
       ELSE /\ wPending' = scanErrFrames
            /\ wPc' = "senderr"
    /\ UNCHANGED <<rlRemote, rlPos, chClosed, bodyClosed, emitted,
                   hPc, hChunk, written, writeFailed, clientGone, outcome>>
    /\ UNCHANGED notRelay

\* The unbuffered channel: the worker's send (ch <- frame) and the handler's
\* receive (for chunk := range ch) happen together.
ChanSend ==
    /\ wPc \in {"send", "senderr"}
    /\ hPc = "recv"
    /\ hChunk' = wPending
    /\ emitted' = emitted \o wPending
    /\ wPending' = <<>>
    /\ wPc' = IF wPc = "send" THEN "scan" ELSE "closing"
    /\ hPc' = "write"
    /\ UNCHANGED <<rlRemote, rlPos, wErr, chClosed, bodyClosed,
                   written, writeFailed, clientGone, outcome>>
    /\ UNCHANGED notRelay

\* The worker returns: deferred resp.Body.Close() and close(ch).
WorkerClose ==
    /\ wPc = "closing"
    /\ bodyClosed' = TRUE
    /\ chClosed' = TRUE
    /\ wPc' = "exit"
    /\ UNCHANGED <<rlRemote, rlPos, wPending, wErr, emitted,
                   hPc, hChunk, written, writeFailed, clientGone, outcome>>
    /\ UNCHANGED notRelay

\* The range loop ends when the channel is closed.
HandlerRecvClosed ==
    /\ hPc = "recv"
    /\ chClosed
    /\ hPc' = "final"
    /\ UNCHANGED <<rlRemote, rlPos, wPc, wPending, wErr, chClosed, bodyClosed, emitted,
                   hChunk, written, writeFailed, clientGone, outcome>>
    /\ UNCHANGED notRelay

\* handleStreamingResponse 134-139: write the chunk; on a write error return
\* (the deferred resp.Body.Close() runs).
HandlerWrite ==
    /\ hPc = "write"
    /\ IF clientGone
       THEN /\ writeFailed' = TRUE
            /\ bodyClosed' = TRUE
            /\ hPc' = "returned"
            /\ UNCHANGED written
       ELSE /\ written' = written \o hChunk
            /\ hPc' = "recv"
            /\ UNCHANGED <<writeFailed, bodyClosed>>
    /\ hChunk' = <<>>
    /\ UNCHANGED <<rlRemote, rlPos, wPc, wPending, wErr, chClosed, emitted,
                   clientGone, outcome>>
    /\ UNCHANGED notRelay

\* handleStreamingResponse 142-151: the final marker, then return.
HandlerFinal ==
    /\ hPc = "final"
    /\ IF clientGone
       THEN /\ writeFailed' = TRUE
            /\ UNCHANGED written
       ELSE /\ written' = Append(written, DoneFrame)
            /\ UNCHANGED writeFailed
    /\ bodyClosed' = TRUE
    /\ hPc' = "returned"
    /\ UNCHANGED <<rlRemote, rlPos, wPc, wPending, wErr, chClosed, emitted,
                   hChunk, clientGone, outcome>>
    /\ UNCHANGED notRelay

\* The client goes away while the response is in progress.
ClientDisconnect ==
    /\ hPc \notin {"idle", "returned"}
    /\ ~clientGone
    /\ clientGone' = TRUE
    /\ UNCHANGED <<rlRemote, rlPos, wPc, wPending, wErr, chClosed, bodyClosed, emitted,
                   hPc, hChunk, written, writeFailed, outcome>>
    /\ UNCHANGED notRelay

WorkerNext == WorkerScan \/ WorkerEOF \/ WorkerReadFail \/ ChanSend \/ WorkerClose

HandlerNext ==
    \/ DispatchError \/ DispatchStatus \/ DispatchOK
    \/ HandlerRecvClosed \/ HandlerWrite \/ HandlerFinal

RelayNext == WorkerNext \/ HandlerNext \/ ClientDisconnect

SpecRelay == RelayInit /\ [][RelayNext]_vars

(***************************************************************************)
(* CredentialManager: pkg/auth/auth.go.                                     *)
(*                                                                          *)
(* A token is [AccessToken, RefreshToken, TokenType, Expiry]; Expiry 0 is   *)
(* the zero time (no expiry).  A JSON credential object is a function from  *)
(* its keys to their values; its "expiry" is the time in whole seconds      *)
(* (what time.Parse(RFC3339) gives back from Format(RFC3339)).              *)
(***************************************************************************)
MaxTime == 2
TokenLifetime == 1
MaxRequests == 2
MaxPolls == 2

NoToken == <<>>

\* oauth2.Token.Valid()
Valid(token, t) ==
    /\ token.AccessToken # ""
    /\ (token.Expiry = 0 \/ token.Expiry > t)

\* The fields the token endpoint answers a refresh with at time t; the refresh
\* token is kept when the answer carries none.
newTokenFor(token, t) ==
    [AccessToken |-> "r" \o ToString(t),
     RefreshToken |-> token.RefreshToken,
     TokenType |-> "Bearer",
     Expiry |-> t + TokenLifetime]

\* (mutant) a failed refresh clears the access token it could not renew.
RefreshToken_clearsOnFailure(token, ok, t) ==
    IF ok
    THEN newTokenFor(token, t)
    ELSE [token EXCEPT !.AccessToken = ""]

\* RefreshToken(token): the token after the call; ok says whether the token
\* endpoint accepted the refresh token.  On failure nothing is assigned.
RefreshToken(token, ok, t) ==
    IF ok
    THEN LET newToken == newTokenFor(token, t)
         IN [AccessToken |-> newToken.AccessToken,
             RefreshToken |-> newToken.RefreshToken,
             TokenType |-> newToken.TokenType,
             Expiry |-> newToken.Expiry]
    ELSE token

\* The "refresh if needed" idiom: !token.Valid() && token.RefreshToken != "".
NeedsRefresh(token, t) == ~Valid(token, t) /\ token.RefreshToken # ""

\* refresh_token is a non-empty string in the decoded object.
HasRefreshToken(obj) == "refresh_token" \in DOMAIN obj /\ obj["refresh_token"] # ""

\* The token parseEnvCredentials / loadFileCredentials build from the object
\* ("token" overrides "access_token").
tokenFromJSON(obj) ==
    [AccessToken |-> IF "token" \in DOMAIN obj THEN obj["token"]
                     ELSE IF "access_token" \in DOMAIN obj THEN obj["access_token"]
                     ELSE "",
     RefreshToken |-> obj["refresh_token"],
     TokenType |-> "Bearer",
     Expiry |-> IF "expiry" \in DOMAIN obj THEN obj["expiry"] ELSE 0]

\* getProjectIDFromFile()
getProjectIDFromFile(file) ==
    IF file.kind = "json" /\ "project_id" \in DOMAIN file.obj
    THEN file.obj["project_id"]
    ELSE ""

\* updateProjectIDInFile(projectID): the file afterwards.
updateProjectIDInFile(file, projectID) ==
    IF file.kind = "json" /\ "project_id" \notin DOMAIN file.obj
    THEN [kind |-> "json", obj |-> file.obj @@ ("project_id" :> projectID)]
    ELSE file

\* The object SaveCredentials marshals when the credentials are not from the
\* environment.
credsDataFor(file, token, projectID) ==
    LET base == ("client_id" :> "client-id") @@ ("client_secret" :> "client-secret")
                @@ ("token" :> token.AccessToken)
                @@ ("refresh_token" :> token.RefreshToken)
                @@ ("token_uri" :> "https://oauth2.googleapis.com/token")
                @@ ("scopes" :> "scopes")
        withExpiry == IF token.Expiry # 0
                      THEN base @@ ("expiry" :> token.Expiry) ELSE base
        existingProjectID == getProjectIDFromFile(file)
    IN IF projectID # "" THEN withExpiry @@ ("project_id" :> projectID)
       ELSE IF existingProjectID # ""
            THEN withExpiry @@ ("project_id" :> existingProjectID)
            ELSE withExpiry

\* (mutant) SaveCredentials without the credsFromEnv guard.
SaveCredentials_noEnvGuard(file, fromEnv, token, projectID) ==
    [kind |-> "json", obj |-> credsDataFor(file, token, projectID)]

\* SaveCredentials(token, projectID): the file afterwards; fromEnv is the
\* value of credsFromEnv the function reads.
SaveCredentials(file, fromEnv, token, projectID) ==
    IF fromEnv
    THEN IF projectID # "" THEN updateProjectIDInFile(file, projectID) ELSE file
    ELSE [kind |-> "json", obj |-> credsDataFor(file, token, projectID)]

(***************************************************************************)
(* GetCredentials(allowOAuthFlow).  The result record gives the package     *)
(* state after the call (creds, fromEnv, pid, file, mux), what the call     *)
(* returned (ret: "ok" with creds[1], "nil" for (nil, nil), "err", "panic") *)
(* and which of its branches ran.                                           *)
(***************************************************************************)
\* 95-100: the in-memory credential is returned while it is valid.
memoryValid == credentials # NoToken /\ Valid(credentials[1], now)

unchangedState ==
    [creds |-> credentials, fromEnv |-> credsFromEnv, pid |-> userProjectID,
     file |-> credFile, mux |-> muxRegistered,
     envParsed |-> FALSE, fileLoaded |-> FALSE]

\* 104-112 with parseEnvCredentials: <<>> when the branch does not return.
envBranch(refreshOK) ==
    IF envCreds.kind = "json" /\ HasRefreshToken(envCreds.obj)
    THEN LET t0 == tokenFromJSON(envCreds.obj)
             token == IF NeedsRefresh(t0, now) THEN RefreshToken(t0, refreshOK, now) ELSE t0
         IN << [unchangedState EXCEPT
                  !.creds = <<token>>,
                  !.fromEnv = TRUE,
                  !.pid = IF "project_id" \in DOMAIN envCreds.obj
                          THEN envCreds.obj["project_id"] ELSE userProjectID,
                  !.envParsed = TRUE] @@ [ret |-> "ok", source |-> "env"] >>
    ELSE <<>>

\* 117-125 with loadFileCredentials: <<>> when the branch does not return.
\* A successful refresh is saved with the credsFromEnv of before the call.
fileBranch(refreshOK) ==
    IF credFile.kind = "json" /\ HasRefreshToken(credFile.obj)
    THEN LET t0 == tokenFromJSON(credFile.obj)
             refresh == NeedsRefresh(t0, now)
             token == IF refresh THEN RefreshToken(t0, refreshOK, now) ELSE t0
         IN << [unchangedState EXCEPT
                  !.creds = <<token>>,
                  !.fromEnv = envGAC,
                  !.pid = IF "project_id" \in DOMAIN credFile.obj
                          THEN credFile.obj["project_id"] ELSE userProjectID,
                  !.file = IF refresh /\ refreshOK
                           THEN SaveCredentials(credFile, credsFromEnv, token, "")
                           ELSE credFile,
                  !.fileLoaded = TRUE] @@ [ret |-> "ok", source |-> "file"] >>
    ELSE <<>>

\* What the browser flow can end with.
OAuthOutcomes == {"listenfail", "nocode", "exchangefail", "token"}

\* startOAuthFlow with startCallbackServer.  http.HandleFunc("/") on the
\* default mux panics when the pattern is registered already.
oauthBranch(oauth) ==
    IF muxRegistered
    THEN unchangedState @@ [ret |-> "panic", source |-> "none"]
    ELSE IF oauth = "token"
         THEN LET token == [AccessToken |-> "o" \o ToString(now),
                            RefreshToken |-> "rt-oauth",
                            TokenType |-> "Bearer",
                            Expiry |-> now + TokenLifetime]
              IN [unchangedState EXCEPT
                    !.creds = <<token>>,
                    !.fromEnv = FALSE,
                    !.file = SaveCredentials(credFile, FALSE, token, ""),
                    !.mux = TRUE] @@ [ret |-> "ok", source |-> "oauth"]
         ELSE [unchangedState EXCEPT !.mux = TRUE] @@ [ret |-> "err", source |-> "none"]

\* (mutant) the credential file is consulted before the environment blob.
GetCredentials_fileFirst(allowOAuthFlow, refreshOK, oauth) ==
    IF memoryValid
    THEN unchangedState @@ [ret |-> "ok", source |-> "memory"]
    ELSE IF fileBranch(refreshOK) # <<>> THEN fileBranch(refreshOK)[1]
    ELSE IF envBranch(refreshOK) # <<>> THEN envBranch(refreshOK)[1]
    ELSE IF ~allowOAuthFlow THEN unchangedState @@ [ret |-> "nil", source |-> "none"]
    ELSE oauthBranch(oauth)

\* (mutant) the browser flow is started whatever allowOAuthFlow says.
GetCredentials_alwaysOAuth(allowOAuthFlow, refreshOK, oauth) ==
    IF memoryValid
    THEN unchangedState @@ [ret |-> "ok", source |-> "memory"]
    ELSE IF envBranch(refreshOK) # <<>> THEN envBranch(refreshOK)[1]
    ELSE IF fileBranch(refreshOK) # <<>> THEN fileBranch(refreshOK)[1]
    ELSE oauthBranch(oauth)

GetCredentials(allowOAuthFlow, refreshOK, oauth) ==
    IF memoryValid
    THEN unchangedState @@ [ret |-> "ok", source |-> "memory"]
    ELSE IF envBranch(refreshOK) # <<>> THEN envBranch(refreshOK)[1]
    ELSE IF fileBranch(refreshOK) # <<>> THEN fileBranch(refreshOK)[1]
    ELSE IF ~allowOAuthFlow THEN unchangedState @@ [ret |-> "nil", source |-> "none"]
    ELSE oauthBranch(oauth)

\* GetUserProjectID(token) with discoverProjectID: the package state after
\* the call, ret "ok" with the project ID, or "err".  token is credentials[1].
ProbeOutcomes == {"fail", "noproject", "found"}

discoverProjectID(refreshOK, probe) ==
    LET t0 == credentials[1]
        token == IF NeedsRefresh(t0, now) THEN RefreshToken(t0, refreshOK, now) ELSE t0
        failed == [creds |-> <<token>>, pid |-> userProjectID, file |-> credFile,
                   ret |-> "err", projectID |-> "", source |-> "discovery"]
    IN IF token.AccessToken = "" THEN failed @@ [probed |-> FALSE]
       ELSE IF probe # "found" THEN failed @@ [probed |-> TRUE]
       ELSE [creds |-> <<token>>, pid |-> "p-api",
             file |-> SaveCredentials(credFile, credsFromEnv, token, "p-api"),
             ret |-> "ok", projectID |-> "p-api",
             source |-> "discovery", probed |-> TRUE]

GetUserProjectID(refreshOK, probe) ==
    IF envProject # ""
    THEN [creds |-> credentials, pid |-> envProject,
          file |-> SaveCredentials(credFile, credsFromEnv, credentials[1], envProject),
          ret |-> "ok", projectID |-> envProject,
          source |-> "override", probed |-> FALSE]
    ELSE IF userProjectID # ""
    THEN [creds |-> credentials, pid |-> userProjectID, file |-> credFile,
          ret |-> "ok", projectID |-> userProjectID,
          source |-> "memory", probed |-> FALSE]
    ELSE IF getProjectIDFromFile(credFile) # ""
    THEN [creds |-> credentials, pid |-> getProjectIDFromFile(credFile), file |-> credFile,
          ret |-> "ok", projectID |-> getProjectIDFromFile(credFile),
          source |-> "file", probed |-> FALSE]
    ELSE discoverProjectID(refreshOK, probe)

(***************************************************************************)
(* The caller: performStartupSetup (main.go) once, then SendGeminiRequest   *)
(* (google client) for each request.  Calls run one at a time.              *)
(***************************************************************************)
\* What the process can be started with.
credJSON(refreshToken, accessToken, expiry, projectID) ==
    LET a == ("client_id" :> "client-id") @@ ("type" :> "authorized_user")
        b == IF refreshToken # "" THEN a @@ ("refresh_token" :> refreshToken) ELSE a
        c == IF accessToken # "" THEN b @@ ("token" :> accessToken) ELSE b
        d == IF expiry # 0 THEN c @@ ("expiry" :> expiry) ELSE c
    IN IF projectID # "" THEN d @@ ("project_id" :> projectID) ELSE d

EnvBlobs ==
    {[kind |-> "unset"], [kind |-> "json", obj |-> credJSON("", "at-env", 2, "")]}
    \cup {[kind |-> "json", obj |-> credJSON("rt-env", "at-env", e, p)] :
             e \in {1, 2}, p \in {"", "p-env"}}
    \cup {[kind |-> "json",
           obj |-> credJSON("rt-env", "at-env", 1, "") @@ ("project_id" :> "")]}

CredFiles ==
    {[kind |-> "absent"], [kind |-> "json", obj |-> credJSON("", "at-file", 2, "")]}
    \cup {[kind |-> "json", obj |-> credJSON("rt-file", "at-file", e, p)] :
             e \in {0, 1, 2}, p \in {"", "p-file"}}

AuthInit ==
    /\ envCreds \in EnvBlobs
    /\ envGAC \in BOOLEAN
    /\ envProject \in {"", "p-gcp"}
    /\ credFile \in CredFiles
    /\ now = 1
    /\ credentials = NoToken
    /\ userProjectID = ""
    /\ onboardingDone = FALSE
    /\ credsFromEnv = FALSE
    /\ muxRegistered = FALSE
    /\ caller = "startup"
    /\ pc = "creds"
    /\ projID = ""
    /\ result = "none"
    /\ nReq = 0
    /\ acq = [called |-> FALSE]
    /\ res = [called |-> FALSE, known |-> FALSE]
    /\ ob = [called |-> FALSE]
    /\ steps = <<>>
    /\ NamesIdle
    /\ RelayIdle
    /\ PayloadIdle
    /\ TranslateIdle
    /\ UpstreamIdle
    /\ SharedIdle

\* The entry a call of RefreshToken leaves in steps: none when the token
\* needed no refresh.
refreshStep(token, ok) ==
    IF NeedsRefresh(token, now) THEN << [step |-> "refresh", ok |-> ok] >> ELSE <<>>

Did(step, ok) == << [step |-> step, ok |-> ok] >>

\* The caller stops with the given result.
Stop(how) ==
    /\ pc' = "done"
    /\ result' = how

\* After OnboardUser returned nil: startup is complete, a request is sent.
Onboarded ==
    IF caller = "startup" THEN Stop("ok")
    ELSE pc' = "send" /\ result' = result

\* alreadyOnboarded: the check OnboardUser opens with.
alreadyOnboarded_never == FALSE

alreadyOnboarded == onboardingDone

\* performStartupSetup 127-128 / 148-150, SendGeminiRequest 40-46.
CallGetCredentials ==
    /\ pc = "creds"
    /\ \E refreshOK \in BOOLEAN, oauth \in OAuthOutcomes :
         LET allowOAuthFlow == IF caller = "startup"
                               THEN ~(envCreds.kind # "unset" \/ credFile.kind # "absent")
                               ELSE TRUE
             r == GetCredentials(allowOAuthFlow, refreshOK, oauth)
         IN /\ credentials' = r.creds
            /\ credsFromEnv' = r.fromEnv
            /\ userProjectID' = r.pid
            /\ credFile' = r.file
            /\ muxRegistered' = r.mux
            /\ acq' = [called |-> TRUE,
                       memValid |-> memoryValid,
                       envUsable |-> envCreds.kind = "json" /\ HasRefreshToken(envCreds.obj),
                       fileExisted |-> credFile.kind # "absent",
                       source |-> r.source,
                       envParsed |-> r.envParsed,
                       fileLoaded |-> r.fileLoaded,
                       before |-> credentials,
                       after |-> r.creds,
                       allow |-> allowOAuthFlow,
                       sharedBefore |-> <<credentials, credsFromEnv, userProjectID,
                                          credFile, muxRegistered>>,
                       sharedAfter |-> <<r.creds, r.fromEnv, r.pid, r.file, r.mux>>,
                       ret |-> r.ret]
            /\ steps' = steps
                   \o (IF r.envParsed THEN refreshStep(tokenFromJSON(envCreds.obj), refreshOK)
                       ELSE IF r.fileLoaded
                       THEN refreshStep(tokenFromJSON(credFile.obj), refreshOK)
                       ELSE <<>>)
                   \o Did("acquire", r.ret = "ok")
            /\ IF r.ret = "ok"
               THEN /\ pc' = IF caller = "startup" THEN "project" ELSE "refresh"
                    /\ result' = result
               ELSE Stop(IF r.ret = "panic" THEN "panic"
                         ELSE IF r.ret = "nil" THEN "no credentials"
                         ELSE "authentication failed")
    /\ UNCHANGED <<envVars, now, onboardingDone, caller, projID, nReq, res, ob, notAuth>>

\* SendGeminiRequest 48-57.
RefreshIfNeeded ==
    /\ pc = "refresh"
    /\ LET token == credentials[1]
       IN IF NeedsRefresh(token, now)
          THEN \E ok \in BOOLEAN :
                 /\ steps' = steps \o Did("refresh", ok)
                 /\ IF ok
                    THEN /\ credentials' = <<RefreshToken(token, TRUE, now)>>
                         /\ credFile' = SaveCredentials(credFile, credsFromEnv,
                                                        RefreshToken(token, TRUE, now), "")
                         /\ pc' = "project"
                         /\ result' = result
                    ELSE /\ Stop("token refresh failed")
                         /\ credentials' = <<RefreshToken(token, FALSE, now)>>
                         /\ UNCHANGED credFile
          ELSE /\ IF token.AccessToken = ""
                  THEN /\ Stop("no access token available")
                       /\ steps' = steps \o Did("refresh", FALSE)
                  ELSE /\ pc' = "project"
                       /\ result' = result
                       /\ steps' = steps
               /\ UNCHANGED <<credentials, credFile>>
    /\ UNCHANGED <<envVars, now, userProjectID, onboardingDone, credsFromEnv,
                   muxRegistered, caller, projID, nReq, acq, res, ob, notAuth>>

\* performStartupSetup 128 / 150, SendGeminiRequest 60-63.
CallGetUserProjectID ==
    /\ pc = "project"
    /\ \E refreshOK \in BOOLEAN, probe \in ProbeOutcomes :
         LET r == GetUserProjectID(refreshOK, probe)
         IN /\ credentials' = r.creds
            /\ userProjectID' = r.pid
            /\ credFile' = r.file
            /\ projID' = r.projectID
            /\ res' = [called |-> TRUE,
                       override |-> envProject,
                       cache |-> userProjectID,
                       onDisk |-> getProjectIDFromFile(credFile),
                       source |-> r.source,
                       probed |-> r.probed,
                       ret |-> r.ret,
                       projectID |-> r.projectID,
                       cacheAfter |-> r.pid,
                       earlier |-> res.known,
                       known |-> res.known \/ (r.probed /\ r.ret = "ok")]
            /\ steps' = steps
                   \o (IF r.source = "discovery"
                       THEN refreshStep(credentials[1], refreshOK) ELSE <<>>)
                   \o Did("project", r.ret = "ok")
            /\ IF r.ret = "ok"
               THEN pc' = "onboard" /\ result' = result
               ELSE Stop("no project ID")
    /\ UNCHANGED <<envVars, now, onboardingDone, credsFromEnv, muxRegistered,
                   caller, nReq, acq, ob, notAuth>>

\* OnboardUser 483-496: the flag check and the refresh.
OnboardEnter ==
    /\ pc = "onboard"
    /\ LET token == credentials[1]
           seen == [called |-> TRUE, entryDone |-> onboardingDone, tier |-> FALSE,
                    probes |-> 0, reqs |-> 0, answers |-> <<>>, sleeps |-> 0,
                    ret |-> "none"]
       IN IF alreadyOnboarded
          THEN /\ Onboarded
               /\ ob' = [seen EXCEPT !.ret = "ok"]
               /\ steps' = steps \o Did("onboard", TRUE)
               /\ UNCHANGED <<credentials, credFile>>
          ELSE IF NeedsRefresh(token, now)
          THEN \E ok \in BOOLEAN :
                 IF ok
                 THEN /\ credentials' = <<RefreshToken(token, TRUE, now)>>
                      /\ credFile' = SaveCredentials(credFile, credsFromEnv,
                                                     RefreshToken(token, TRUE, now), "")
                      /\ pc' = "probe"
                      /\ result' = result
                      /\ ob' = seen
                      /\ steps' = steps \o Did("refresh", TRUE)
                 ELSE /\ Stop("onboarding failed")
                      /\ ob' = [seen EXCEPT !.ret = "err"]
                      /\ steps' = steps \o Did("refresh", FALSE) \o Did("onboard", FALSE)
                      /\ credentials' = <<RefreshToken(token, FALSE, now)>>
                      /\ UNCHANGED credFile
          ELSE /\ pc' = "probe"
               /\ result' = result
               /\ ob' = seen
               /\ steps' = steps
               /\ UNCHANGED <<credentials, credFile>>
    /\ UNCHANGED <<envVars, now, userProjectID, onboardingDone, credsFromEnv,
                   muxRegistered, caller, projID, nReq, acq, res, notAuth>>

\* OnboardUser 499-501 with loadCodeAssist: the status probe.
OnboardLoadCodeAssist ==
    /\ pc = "probe"
    /\ \E answer \in {"fail", "tier", "notier"} :
         /\ onboardingDone' = IF answer = "tier" THEN TRUE ELSE onboardingDone
         /\ IF answer = "fail"
            THEN /\ Stop("onboarding failed")
                 /\ ob' = [ob EXCEPT !.probes = @ + 1, !.ret = "err"]
                 /\ steps' = steps \o Did("onboard", FALSE)
            ELSE /\ pc' = "poll"
                 /\ result' = result
                 /\ ob' = [ob EXCEPT !.probes = @ + 1, !.tier = (answer = "tier")]
                 /\ steps' = steps
    /\ UNCHANGED <<envVars, credFile, now, credentials, userProjectID, credsFromEnv,
                   muxRegistered, caller, projID, nReq, acq, res, notAuth>>

\* What the remote answers an onboardUser request with: "fail" is a
\* transport error, a status other than 200 or a body that is not JSON;
\* "pending" a decoded answer without "done": true; "done" one with it.
OnboardAnswers == {"fail", "pending", "done"}

\* (mutant) a failed request is taken for a pending one.
lroFailed_ignored(answer) == FALSE

\* startOnboarding 582-597: the request failed.
lroFailed(answer) == answer = "fail"

\* startOnboarding 599-601: done, ok := lroData["done"].(bool); ok && done
lroDone(answer) == answer = "done"

\* OnboardUser 504-512 with startOnboarding 561-607: one onboardUser request
\* of the polling loop.  A failed request returns the error; when the
\* operation is done the loop ends, the flag is set and nil is returned;
\* otherwise the loop goes to sleep.  The remote leaves an operation pending
\* for fewer than MaxPolls answers.
OnboardStartOnboarding ==
    /\ pc = "poll"
    /\ ob.reqs < MaxPolls
    /\ \E answer \in OnboardAnswers :
         /\ answer = "pending" => ob.reqs + 1 < MaxPolls
         /\ IF lroFailed(answer)
            THEN /\ Stop("onboarding failed")
                 /\ ob' = [ob EXCEPT !.reqs = @ + 1, !.answers = Append(@, answer),
                                     !.ret = "err"]
                 /\ steps' = steps \o Did("onboard", FALSE)
                 /\ UNCHANGED onboardingDone
            ELSE IF lroDone(answer)
            THEN /\ onboardingDone' = TRUE
                 /\ Onboarded
                 /\ ob' = [ob EXCEPT !.reqs = @ + 1, !.answers = Append(@, answer),
                                     !.ret = "ok"]
                 /\ steps' = steps \o Did("onboard", TRUE)
            ELSE /\ pc' = "sleep"
                 /\ ob' = [ob EXCEPT !.reqs = @ + 1, !.answers = Append(@, answer)]
                 /\ UNCHANGED <<result, onboardingDone, steps>>
    /\ UNCHANGED <<envVars, credFile, now, credentials, userProjectID, credsFromEnv,
                   muxRegistered, caller, projID, nReq, acq, res, notAuth>>

\* startOnboarding 603: time.Sleep(5 * time.Second), then the loop sends the
\* next request.
OnboardSleep ==
    /\ pc = "sleep"
    /\ pc' = "poll"
    /\ ob' = [ob EXCEPT !.sleeps = @ + 1]
    /\ UNCHANGED <<envVars, credFile, now, credentials, userProjectID, onboardingDone,
                   credsFromEnv, muxRegistered, caller, projID, result, nReq, acq, res,
                   steps, notAuth>>

\* SendGeminiRequest 69-107: the generate call goes out.
SendRequest ==
    /\ pc = "send"
    /\ Stop("ok")
    /\ steps' = steps \o Did("send", TRUE)
    /\ UNCHANGED <<envVars, credFile, now, credentials, userProjectID, onboardingDone,
                   credsFromEnv, muxRegistered, caller, projID, nReq, acq, res, ob, notAuth>>

\* The next inbound request reaches SendGeminiRequest.
NewRequest ==
    /\ pc = "done"
    /\ nReq < MaxRequests
    /\ caller' = "request"
    /\ pc' = "creds"
    /\ projID' = ""
    /\ result' = "none"
    /\ nReq' = nReq + 1
    /\ acq' = [called |-> FALSE]
    /\ res' = [called |-> FALSE, known |-> res.known]
    /\ ob' = [called |-> FALSE]
    /\ steps' = <<>>
    /\ UNCHANGED <<envVars, credFile, now, credentials, userProjectID, onboardingDone,
                   credsFromEnv, muxRegistered, notAuth>>

\* Time passes.
Tick ==
    /\ now < MaxTime
    /\ now' = now + 1
    /\ UNCHANGED <<envVars, credFile, credentials, userProjectID, onboardingDone,
                   credsFromEnv, muxRegistered, caller, pc, projID, result, nReq,
                   acq, res, ob, steps, notAuth>>

Next ==
    \/ CallGetCredentials
    \/ RefreshIfNeeded
    \/ CallGetUserProjectID
    \/ OnboardEnter
    \/ OnboardLoadCodeAssist
    \/ OnboardStartOnboarding
    \/ OnboardSleep
    \/ SendRequest
    \/ NewRequest
    \/ Tick

Spec == AuthInit /\ [][Next]_vars

\* The same with the goroutine that runs OnboardUser going on: an
\* onboardUser request that can be sent is sent and answered (HTTPClient.Do
\* returns with an answer or an error), and time.Sleep returns.
\* The process is started with a credential file or with nothing: the
\* handshake does not read where the credential came from.
OnboardInit ==
    /\ AuthInit
    /\ envCreds.kind = "unset"
    /\ ~envGAC
    /\ envProject = ""

SpecOnboard ==
    OnboardInit /\ [][Next]_vars
    /\ WF_vars(OnboardStartOnboarding) /\ WF_vars(OnboardSleep)

(***************************************************************************)
(* ProtocolTranslator, inbound -> remote: OpenAIRequestToGemini             *)
(* (pkg/transformers/openai.go), BuildGeminiPayloadFromOpenAI and           *)
(* BuildGeminiPayloadFromNative (google client).                            *)
(*                                                                          *)
(* A Go map is a function from its keys; a Go value held in an interface{}  *)
(* whose dynamic type the code switches on is [goType, v].                  *)
(***************************************************************************)
\* m[k] = v on a Go map.
Put(m, k, v) == (k :> v) @@ m

JArr(elems) == [t |-> "array", v |-> elems]

\* The categories of the safety table.
SafetyCategories ==
    << "HARM_CATEGORY_HARASSMENT", "HARM_CATEGORY_HATE_SPEECH",
       "HARM_CATEGORY_SEXUALLY_EXPLICIT", "HARM_CATEGORY_DANGEROUS_CONTENT",
       "HARM_CATEGORY_CIVIC_INTEGRITY", "HARM_CATEGORY_IMAGE_DANGEROUS_CONTENT",
       "HARM_CATEGORY_IMAGE_HARASSMENT", "HARM_CATEGORY_IMAGE_HATE",
       "HARM_CATEGORY_IMAGE_SEXUALLY_EXPLICIT", "HARM_CATEGORY_UNSPECIFIED" >>

\* config.getDefaultSafetySettings, the value of Config.SafetySettings.
getDefaultSafetySettings ==
    [i \in 1..Len(SafetyCategories) |->
        [category |-> SafetyCategories[i], threshold |-> "BLOCK_NONE"]]

\* transformers.getDefaultSafetySettings
transformers_getDefaultSafetySettings ==
    [i \in 1..Len(SafetyCategories) |->
        [category |-> SafetyCategories[i], threshold |-> "BLOCK_NONE"]]

\* What encoding/json stores in an interface{} for a JSON value: a string
\* for a JSON string, a []interface{} for a JSON array.
decodeInterface(j) ==
    CASE j.t = "string" -> [goType |-> "string", v |-> j.v]
      [] j.t = "array"  -> [goType |-> "[]interface {}",
                            v |-> [i \in 1..Len(j.v) |-> j.v[i].v]]
      [] OTHER          -> [goType |-> "nil"]

\* strings.Index(s[i-1:], c) for a one-character c, as a position of s
\* (0 when c does not occur at or after position i).
RECURSIVE IndexFrom(_, _, _)
IndexFrom(s, c, i) ==
    IF i > Len(s) THEN 0
    ELSE IF SubSeq(s, i, i) = c THEN i
    ELSE IndexFrom(s, c, i + 1)

\* strings.Trim(s, cutset), cutset given as a set of characters.
RECURSIVE Trim(_, _)
Trim(s, cutset) ==
    IF Len(s) > 0 /\ SubSeq(s, 1, 1) \in cutset
    THEN Trim(SubSeq(s, 2, Len(s)), cutset)
    ELSE IF Len(s) > 0 /\ SubSeq(s, Len(s), Len(s)) \in cutset
    THEN Trim(SubSeq(s, 1, Len(s) - 1), cutset)
    ELSE s

\* The alphabet of base64.StdEncoding.
Base64Alphabet ==
    {"A","B","C","D","E","F","G","H","I","J","K","L","M","N","O","P","Q","R","S",
     "T","U","V","W","X","Y","Z","a","b","c","d","e","f","g","h","i","j","k","l",
     "m","n","o","p","q","r","s","t","u","v","w","x","y","z","0","1","2","3","4",
     "5","6","7","8","9","+","/"}

\* base64.StdEncoding.DecodeString(data) returns no error: whole quanta of
\* four characters, the last one padded with at most two "=".
validBase64(data) ==
    LET n == Len(data)
        pad == IF n >= 2 /\ SubSeq(data, n - 1, n) = "==" THEN 2
               ELSE IF n >= 1 /\ SubSeq(data, n, n) = "=" THEN 1 ELSE 0
    IN /\ n % 4 = 0
       /\ \A i \in 1..(n - pad) : SubSeq(data, i, i) \in Base64Alphabet

\* (mutant) no URL is taken for an image: every reference stays text.
processImageURL_never(url) == <<>>

\* processImageURL(url): <<part>>, or <<>> for the false result.
processImageURL(url) ==
    LET comma == IndexFrom(url, ",", 1)
        header == SubSeq(url, 1, comma - 1)
        data == SubSeq(url, comma + 1, Len(url))
        colon == IndexFrom(header, ":", 1)
        mimeTypeWithParams == SubSeq(header, colon + 1, Len(header))
        semi == IndexFrom(mimeTypeWithParams, ";", 1)
        mimeType == IF colon = 0 THEN "image/png"
                    ELSE IF semi # 0 THEN SubSeq(mimeTypeWithParams, 1, semi - 1)
                    ELSE mimeTypeWithParams
    IN IF ~HasPrefix(url, "data:") THEN <<>>
       ELSE IF comma = 0 THEN <<>>
       ELSE IF ~validBase64(data) THEN <<>>
       ELSE << [inlineData |-> [mimeType |-> mimeType, data |-> data]] >>

\* The leftmost match of !\[[^\]]*\]\(([^)]+)\) in text at or after position
\* i: [lo, hi] the match, [urlLo, urlHi] its submatch; <<>> when there is none.
RECURSIVE findImage(_, _)
findImage(text, i) ==
    IF i + 1 > Len(text) THEN <<>>
    ELSE LET close == IndexFrom(text, "]", i + 2)
             paren == IndexFrom(text, ")", close + 2)
         IN IF /\ SubSeq(text, i, i + 1) = "!["
               /\ close # 0
               /\ close + 1 <= Len(text)
               /\ SubSeq(text, close + 1, close + 1) = "("
               /\ paren > close + 2
            THEN << [lo |-> i, hi |-> paren, urlLo |-> close + 2, urlHi |-> paren - 1] >>
            ELSE findImage(text, i + 1)

\* processTextContent 310-340: the loop over the matches, from the match at
\* or after lastIdx on, with the remaining text added after the last match.
RECURSIVE textParts(_, _)
textParts(text, lastIdx) ==
    LET found == findImage(text, lastIdx)
    IN IF found = <<>>
       THEN IF lastIdx <= Len(text)
            THEN << [text |-> SubSeq(text, lastIdx, Len(text))] >> ELSE <<>>
       ELSE LET match == found[1]
                before == IF match.lo > lastIdx
                          THEN << [text |-> SubSeq(text, lastIdx, match.lo - 1)] >>
                          ELSE <<>>
                url == Trim(Trim(Trim(SubSeq(text, match.urlLo, match.urlHi),
                                      {" ", "\t", "\n", "\r"}),
                                 {"\"", "'"}),
                            {"'"})
                image == processImageURL(url)
            IN before
               \o (IF image # <<>> THEN image
                   ELSE << [text |-> SubSeq(text, match.lo, match.hi)] >>)
               \o textParts(text, match.hi + 1)

\* processTextContent(text)
processTextContent(text) ==
    IF text = "" THEN << [text |-> ""] >>
    ELSE textParts(text, 1)

\* processArrayContent(contentArray)
RECURSIVE arrayParts(_)
arrayParts(contentArray) ==
    IF Len(contentArray) = 0 THEN <<>>
    ELSE LET partMap == contentArray[1]
             partType == IF "type" \in DOMAIN partMap THEN partMap["type"] ELSE ""
             parts ==
                CASE partType = "text" /\ "text" \in DOMAIN partMap ->
                         processTextContent(partMap["text"])
                  [] partType = "image_url" /\ "image_url" \in DOMAIN partMap
                        /\ "url" \in DOMAIN partMap["image_url"] ->
                         processImageURL(partMap["image_url"]["url"])
                  [] OTHER -> <<>>
         IN parts \o arrayParts(Tail(contentArray))

\* processContent(content): <<parts>>, or <<>> for the error result.
processContent(content) ==
    CASE content.t = "string" -> << processTextContent(content.v) >>
      [] content.t = "array"  ->
            << IF arrayParts(content.v) = <<>> THEN << [text |-> ""] >>
               ELSE arrayParts(content.v) >>
      [] OTHER -> <<>>

\* OpenAIRequestToGemini 18-41: the contents; <<>> for the error result.
RECURSIVE requestContents(_)
requestContents(messages) ==
    IF Len(messages) = 0 THEN << <<>> >>
    ELSE LET message == messages[1]
             role == IF message.Role = "assistant" THEN "model"
                     ELSE IF message.Role = "system" THEN "user"
                     ELSE message.Role
             parts == processContent(message.Content)
             rest == requestContents(Tail(messages))
         IN IF parts = <<>> \/ rest = <<>> THEN <<>>
            ELSE << <<[role |-> role, parts |-> parts[1]]>> \o rest[1] >>

\* c.ShouldBindJSON(&request) for models.OpenAIChatCompletionRequest: the
\* fields used below; a pointer or interface field is <<>> when nil.
bindChatRequest(body) ==
    [Model |-> body["model"],
     Messages |-> [i \in 1..Len(body["messages"]) |->
                     [Role |-> body["messages"][i].role,
                      Content |-> body["messages"][i].content]],
     MaxTokens |-> IF "max_tokens" \in DOMAIN body THEN <<body["max_tokens"]>> ELSE <<>>,
     Stop |-> IF "stop" \in DOMAIN body /\ body["stop"].t # "null"
              THEN <<decodeInterface(body["stop"])>> ELSE <<>>]

\* The googleSearch tool both builders add.
googleSearchTool == "googleSearch" :> EmptyObj

\* OpenAIRequestToGemini 45-63: the generation parameters.
chatGenerationConfig(req) ==
    LET g0 == EmptyObj
        g1 == IF req.MaxTokens # <<>>
              THEN Put(g0, "maxOutputTokens", req.MaxTokens[1]) ELSE g0
    IN IF req.Stop = <<>> THEN g1
       ELSE CASE req.Stop[1].goType = "string" ->
                     Put(g1, "stopSequences", <<req.Stop[1].v>>)
              [] req.Stop[1].goType = "[]string" ->
                     Put(g1, "stopSequences", req.Stop[1].v)
              [] OTHER -> g1

\* OpenAIRequestToGemini 95-106: the thinking configuration.
chatThinkingConfig(model, generationConfig) ==
    IF ~Contains(model, "gemini-2.5-flash-image") /\ GetThinkingBudget(model) # -1
    THEN LET tc0 == IF "thinkingConfig" \in DOMAIN generationConfig
                    THEN generationConfig["thinkingConfig"] ELSE EmptyObj
             tc1 == Put(tc0, "thinkingBudget", GetThinkingBudget(model))
         IN Put(generationConfig, "thinkingConfig",
                Put(tc1, "includeThoughts", ShouldIncludeThoughts(model)))
    ELSE generationConfig

\* OpenAIRequestToGemini: <<requestPayload>>, or <<>> for the error result.
OpenAIRequestToGemini(req) ==
    LET contents == requestContents(req.Messages)
        generationConfig == chatThinkingConfig(req.Model, chatGenerationConfig(req))
        requestPayload == ("contents" :> contents[1])
                          @@ ("generationConfig" :> generationConfig)
                          @@ ("safetySettings" :> transformers_getDefaultSafetySettings)
                          @@ ("model" :> GetBaseModelName(req.Model))
    IN IF contents = <<>> THEN <<>>
       ELSE IF IsSearchModel(req.Model)
       THEN << Put(requestPayload, "tools", <<googleSearchTool>>) >>
       ELSE << requestPayload >>

\* BuildGeminiPayloadFromOpenAI: the keys of the request portion; a key the
\* transformed request lacks reads as nil and is removed again.
requestKeys == {"contents", "systemInstruction", "cachedContent", "tools",
                "toolConfig", "safetySettings", "generationConfig"}

BuildGeminiPayloadFromOpenAI(openaiPayload) ==
    LET safetySettings == IF "safetySettings" \in DOMAIN openaiPayload
                          THEN openaiPayload["safetySettings"]
                          ELSE getDefaultSafetySettings
        kept == (requestKeys \cap DOMAIN openaiPayload) \cup {"safetySettings"}
    IN [model |-> openaiPayload["model"],
        request |-> [k \in kept |-> IF k = "safetySettings" THEN safetySettings
                                    ELSE openaiPayload[k]]]

\* BuildGeminiPayloadFromNative 217-240: generationConfig with thinkingConfig.
nativeGenerationConfig(request, modelFromPath) ==
    LET genConfig == IF "generationConfig" \in DOMAIN request
                     THEN request["generationConfig"] ELSE EmptyObj
        tc0 == IF "thinkingConfig" \in DOMAIN genConfig
               THEN genConfig["thinkingConfig"] ELSE EmptyObj
        thinkingBudget == GetThinkingBudget(modelFromPath)
        tc1 == Put(tc0, "includeThoughts", ShouldIncludeThoughts(modelFromPath))
        tc2 == IF "thinkingBudget" \notin DOMAIN tc1 \/ thinkingBudget # -1
               THEN Put(tc1, "thinkingBudget", thinkingBudget) ELSE tc1
    IN Put(genConfig, "thinkingConfig",
           IF ~Contains(modelFromPath, "gemini-2.5-flash-image") THEN tc2 ELSE tc0)

\* 250-258: some tool of the list is a map with the key googleSearch.
hasGoogleSearch(tools) == \E i \in 1..Len(tools) : "googleSearch" \in DOMAIN tools[i]

\* (mutant) the search tool is appended without looking at the list.
nativeTools_alwaysAppend(request, modelFromPath) ==
    IF IsSearchModel(modelFromPath)
    THEN LET tools == IF "tools" \in DOMAIN request THEN request["tools"] ELSE <<>>
         IN Put(request, "tools", Append(tools, googleSearchTool))
    ELSE request

\* BuildGeminiPayloadFromNative 242-264: the request with its tools.
nativeTools(request, modelFromPath) ==
    IF IsSearchModel(modelFromPath)
    THEN LET tools == IF "tools" \in DOMAIN request THEN request["tools"] ELSE <<>>
         IN IF hasGoogleSearch(tools)
            THEN Put(request, "tools", tools)
            ELSE Put(request, "tools", Append(tools, googleSearchTool))
    ELSE request

\* (mutant) the safety table is left as the caller sent it, or left out.
nativeSafety_untouched(request) == request

\* BuildGeminiPayloadFromNative 215: the configured table is set.
nativeSafety(request) == Put(request, "safetySettings", getDefaultSafetySettings)

BuildGeminiPayloadFromNative(nativeRequest, modelFromPath) ==
    LET r1 == nativeSafety(nativeRequest)
        r2 == Put(r1, "generationConfig", nativeGenerationConfig(r1, modelFromPath))
    IN [model |-> GetBaseModelName(modelFromPath),
        request |-> nativeTools(r2, modelFromPath)]

\* What the caller's nativeRequest reads as after the call.  209-212 copy
\* the top-level entries into a new map, so 215 (safetySettings), 219
\* (a generationConfig where there was none) and 243-263 (tools: an append
\* gives a new slice header) reach the copy only; the generationConfig of
\* the caller is a map and the copy holds the same map, so 221-240 write
\* thinkingConfig into the caller's object.
nativeRequestAfter(nativeRequest, modelFromPath) ==
    IF "generationConfig" \in DOMAIN nativeRequest
    THEN Put(nativeRequest, "generationConfig",
             nativeGenerationConfig(nativeRequest, modelFromPath))
    ELSE nativeRequest

(***************************************************************************)
(* Specification of the ModelRegistry: a variant name is derived from a     *)
(* base model and a flag combination, then a payload is built for it.       *)
(***************************************************************************)
BaseNames == { getBaseModels[i].Name : i \in 1..Len(getBaseModels) }

\* The flag combinations the catalog derives (the empty set is the base model).
FlagSets == { {}, {"search"}, {"nothinking"}, {"maxthinking"},
              {"search", "nothinking"}, {"search", "maxthinking"} }

NamesInit ==
    /\ nmBase \in BaseNames
    /\ nmFlags \in FlagSets
    /\ nmName = ""
    /\ nmOut = ""
    /\ nmCatalog = <<>>
    /\ nmBudget = -1
    /\ nmThoughts = TRUE
    /\ nmPc = "pick"
    /\ RelayIdle
    /\ AuthIdle
    /\ PayloadIdle
    /\ TranslateIdle
    /\ UpstreamIdle
    /\ SharedIdle

DeriveVariant ==
    /\ nmPc = "pick"
    /\ nmName' = VariantName(nmBase, nmFlags)
    /\ nmPc' = "named"
    /\ UNCHANGED <<nmBase, nmFlags, nmOut, nmCatalog, nmBudget, nmThoughts>>
    /\ UNCHANGED notNames

BuildPayloadModel ==
    /\ nmPc = "named"
    /\ nmOut' = PayloadModel(nmName)
    /\ nmPc' = "built"
    /\ UNCHANGED <<nmBase, nmFlags, nmName, nmCatalog, nmBudget, nmThoughts>>
    /\ UNCHANGED notNames

\* The thinking policy of the name is looked up, as both payload builders do.
ReadThinkingPolicy ==
    /\ nmPc = "built"
    /\ nmBudget' = GetThinkingBudget(nmName)
    /\ nmThoughts' = ShouldIncludeThoughts(nmName)
    /\ nmPc' = "configured"
    /\ UNCHANGED <<nmBase, nmFlags, nmName, nmOut, nmCatalog>>
    /\ UNCHANGED notNames

\* config.Load: Config.SupportedModels is generated, once.
LoadSupportedModels ==
    /\ nmCatalog = <<>>
    /\ nmCatalog' = generateSupportedModels
    /\ UNCHANGED <<nmBase, nmFlags, nmName, nmOut, nmBudget, nmThoughts, nmPc>>
    /\ UNCHANGED notNames

NamesNext ==
    DeriveVariant \/ BuildPayloadModel \/ ReadThinkingPolicy \/ LoadSupportedModels

SpecNames == NamesInit /\ [][NamesNext]_vars

(***************************************************************************)
(* Specification of the payload builders: one inbound request, on the chat  *)
(* path (ChatCompletions) or on the native path (GeminiProxy), is turned    *)
(* into the remote payload; a built native request may be sent in again.    *)
(***************************************************************************)
PayloadModels ==
    { VariantName(b, f) : b \in {"models/gemini-2.5-pro", "models/gemini-2.5-flash",
                                 "models/gemini-2.5-flash-image-preview"},
                          f \in FlagSets }

\* An optional field of a JSON body: opt is <<>> (absent) or <<value>>.
OptField(key, opt) == IF opt = <<>> THEN EmptyObj ELSE key :> opt[1]

CustomSafety ==
    << [category |-> "HARM_CATEGORY_HARASSMENT", threshold |-> "BLOCK_MEDIUM_AND_ABOVE"] >>

codeExecutionTool == "codeExecution" :> EmptyObj

ToolLists == { <<>>, <<codeExecutionTool>>, <<googleSearchTool>>,
               <<codeExecutionTool, googleSearchTool>> }

GenerationConfigs == { "temperature" :> 1, "thinkingConfig" :> ("thinkingBudget" :> 512) }

NativeBodies ==
    { ("contents" :> <<"hello">>) @@ OptField("safetySettings", s)
         @@ OptField("tools", t) @@ OptField("generationConfig", g) :
      s \in {<<>>, <<CustomSafety>>},
      t \in {<<>>} \cup { <<l>> : l \in ToolLists },
      g \in {<<>>} \cup { <<c>> : c \in GenerationConfigs } }

StopValues == { JStr("END"), JArr(<<JStr("a"), JStr("b")>>), JNull }

ChatBodies ==
    { ("model" :> m)
         @@ ("messages" :> << [role |-> "user", content |-> JStr("hello")] >>)
         @@ OptField("stop", st)
         @@ OptField("max_tokens", mt) :
      m \in PayloadModels,
      st \in {<<>>} \cup { <<v>> : v \in StopValues },
      mt \in {<<>>, <<64>>} }

PayloadInit ==
    /\ pyPath \in {"chat", "native"}
    /\ pyModel \in PayloadModels
    /\ pyBody \in IF pyPath = "chat"
                  THEN { b \in ChatBodies : b["model"] = pyModel }
                  ELSE NativeBodies
    /\ pyOut = <<>>
    /\ pyPrev = <<>>
    /\ pyPc = "inbound"
    /\ pyCaller = <<>>
    /\ NamesIdle
    /\ RelayIdle
    /\ AuthIdle
    /\ TranslateIdle
    /\ UpstreamIdle
    /\ SharedIdle

\* ChatCompletions 67-96; a request whose transformation fails is answered
\* 400 and no payload is built.
ChatBuild ==
    /\ pyPc = "inbound"
    /\ pyPath = "chat"
    /\ LET geminiRequestData == OpenAIRequestToGemini(bindChatRequest(pyBody))
       IN IF geminiRequestData = <<>>
          THEN pyOut' = <<>> /\ pyPc' = "rejected"
          ELSE /\ pyOut' = << BuildGeminiPayloadFromOpenAI(geminiRequestData[1]) >>
               /\ pyPc' = "built"
    /\ UNCHANGED <<pyPath, pyModel, pyBody, pyPrev, pyCaller, notPayload>>

\* GeminiProxy 99-114.
NativeBuild ==
    /\ pyPc = "inbound"
    /\ pyPath = "native"
    /\ pyOut' = << BuildGeminiPayloadFromNative(pyBody, pyModel) >>
    /\ pyCaller' = << nativeRequestAfter(pyBody, pyModel) >>
    /\ pyPc' = "built"
    /\ UNCHANGED <<pyPath, pyModel, pyBody, pyPrev, notPayload>>

\* The request portion of a built payload comes in again as a native request
\* for the same model name.
NativeRebuild ==
    /\ pyPc = "built"
    /\ pyPath = "native"
    /\ pyPrev' = pyOut
    /\ pyOut' = << BuildGeminiPayloadFromNative(pyOut[1].request, pyModel) >>
    /\ pyPc' = "rebuilt"
    /\ UNCHANGED <<pyPath, pyModel, pyBody, pyCaller, notPayload>>

PayloadNext == ChatBuild \/ NativeBuild \/ NativeRebuild

SpecPayload == PayloadInit /\ [][PayloadNext]_vars

(***************************************************************************)
(* Specification of the ProtocolTranslator's message and candidate          *)
(* translations: either a chat request comes in, its messages are           *)
(* translated and the remote answers with a candidate that repeats one of   *)
(* the contents it was sent, or the remote answers with a candidate of its  *)
(* own; the candidate is translated as a full response and as a chunk.      *)
(***************************************************************************)
MaxSegs == 3
MaxParts == 3

\* The pieces a message text is written from: plain text, a markdown image
\* reference with a data URI (its mime type and base64 payload given), and
\* other markdown image references.
Segments ==
    { [kind |-> "text", raw |-> "A "],
      [kind |-> "text", raw |-> " B"],
      [kind |-> "text", raw |-> "!"],
      [kind |-> "image", raw |-> "![x](data:image/png;base64,QQ==)",
       mimeType |-> "image/png", data |-> "QQ=="],
      [kind |-> "image", raw |-> "![]( 'data:image/jpeg;base64,QUI=' )",
       mimeType |-> "image/jpeg", data |-> "QUI="],
      [kind |-> "link", raw |-> "![y](http://h/i.png)"],
      [kind |-> "link", raw |-> "![z](data:image/png;base64,QQ=)"] }

SegmentLists == UNION { [1..n -> Segments] : n \in 0..MaxSegs }

RECURSIVE TextOf(_)
TextOf(segs) == IF Len(segs) = 0 THEN "" ELSE segs[1].raw \o TextOf(Tail(segs))

\* A content in the array form, and a content that is neither form (null).
ArrayContent ==
    JArr(<< [type |-> "text", text |-> "A "],
            [type |-> "image_url", image_url |-> [url |-> "data:image/png;base64,QQ=="]],
            [type |-> "image_url", image_url |-> [url |-> "http://h/i.png"]] >>)

Roles == {"user", "assistant", "system"}

\* The messages after the first one.
LaterMessages ==
    { <<>>,
      << [Role |-> "user", Content |-> ArrayContent] >>,
      << [Role |-> "assistant", Content |-> JNull] >> }
    \cup { << [Role |-> r, Content |-> JStr("hi")] >> : r \in Roles }

\* The parts of a remote candidate.
RemoteParts ==
    { [text |-> "a"],
      [text |-> ""],
      [text |-> "b", thought |-> TRUE],
      [text |-> "c", thought |-> FALSE],
      [inlineData |-> [mimeType |-> "image/png", data |-> "QQ=="]],
      [inlineData |-> [mimeType |-> "application/pdf", data |-> "QQ=="]] }

FinishReasons ==
    { JStr("STOP"), JStr("MAX_TOKENS"), JStr("SAFETY"), JStr("RECITATION"),
      JStr("OTHER"), JStr("stop"), JNum(1) }

RemoteCandidates ==
    { [content |-> [role |-> "model", parts |-> ps], index |-> JNum(0)] @@ fr :
        ps \in UNION { [1..n -> RemoteParts] : n \in 0..MaxParts },
        fr \in { EmptyObj } \cup { [finishReason |-> f] : f \in FinishReasons } }

TranslateInit ==
    /\ \/ /\ trSegs \in SegmentLists
          /\ \E r \in Roles, later \in LaterMessages :
                trMessages = << [Role |-> r, Content |-> JStr(TextOf(trSegs))] >>
                             \o later
          /\ trCandidate = <<>>
          /\ trPc = "inbound"
       \/ /\ trSegs = <<>>
          /\ trMessages = <<>>
          /\ trCandidate \in { <<c>> : c \in RemoteCandidates }
          /\ trPc = "answered"
    /\ trContents = <<>>
    /\ trFull = <<>>
    /\ trChunk = <<>>
    /\ NamesIdle
    /\ RelayIdle
    /\ AuthIdle
    /\ PayloadIdle
    /\ UpstreamIdle
    /\ SharedIdle

\* ChatCompletions 79-90: the request is transformed, or answered 400.
TranslateRequest ==
    /\ trPc = "inbound"
    /\ LET geminiRequestData ==
               OpenAIRequestToGemini([Model |-> "models/gemini-2.5-flash",
                                      Messages |-> trMessages,
                                      MaxTokens |-> <<>>, Stop |-> <<>>])
       IN IF geminiRequestData = <<>>
          THEN trContents' = <<>> /\ trPc' = "rejected"
          ELSE trContents' = geminiRequestData[1]["contents"] /\ trPc' = "sent"
    /\ UNCHANGED <<trSegs, trMessages, trCandidate, trFull, trChunk, notTranslate>>

\* The remote answers with a candidate that repeats one of the contents.
RemoteRepeats ==
    /\ trPc = "sent"
    /\ \E i \in 1..Len(trContents) :
          trCandidate' = << [content |-> trContents[i], index |-> JNum(0),
                             finishReason |-> JStr("STOP")] >>
    /\ trPc' = "answered"
    /\ UNCHANGED <<trSegs, trMessages, trContents, trFull, trChunk, notTranslate>>

\* handleNonStreamingResponse 190: the full-response translation.
TranslateFull ==
    /\ trPc = "answered"
    /\ trFull = <<>>
    /\ trFull' = GeminiResponseToOpenAI([candidates |-> trCandidate],
                                        "models/gemini-2.5-flash").choices
    /\ UNCHANGED <<trSegs, trMessages, trContents, trCandidate, trChunk, trPc,
                   notTranslate>>

\* The per-chunk translation of the same candidate (the exported function
\* GeminiStreamChunkToOpenAI, called as a library function).
TranslateChunk ==
    /\ trPc = "answered"
    /\ trChunk = <<>>
    /\ trChunk' = GeminiStreamChunkToOpenAI([candidates |-> trCandidate],
                                            "models/gemini-2.5-flash", "id").choices
    /\ UNCHANGED <<trSegs, trMessages, trContents, trCandidate, trFull, trPc,
                   notTranslate>>

TranslateNext == TranslateRequest \/ RemoteRepeats \/ TranslateFull \/ TranslateChunk

SpecTranslate == TranslateInit /\ [][TranslateNext]_vars

(***************************************************************************)
(* Specification of one inbound request: the authentication middleware,   *)
(* SendGeminiRequest (credential steps, then the HTTP round trip of        *)
(* sendStreamingRequest / sendNonStreamingRequest) and the handler's       *)
(* answer to the client (handleStreamingResponse,                          *)
(* handleNonStreamingResponse, GeminiProxy).                               *)
(***************************************************************************)
\* What the remote may answer a generation call with: a status and a body,
\* the body <<>> (empty or not the JSON text of an object) or <<o>>.
UpstreamStatuses == {200, 400, 403, 404, 429, 500, 503}

UpstreamBodies ==
    { <<>>,
      << [error |-> [message |-> "quota exceeded", code |-> 429]] >>,
      << [error |-> [message |-> "model not found", status |-> "NOT_FOUND"]] >>,
      << [error |-> [status |-> "UNAVAILABLE"]] >>,
      << [detail |-> "bad gateway"] >> }

UpstreamAnswers ==
    { [status |-> st, body |-> b] :
        st \in UpstreamStatuses \ {200}, b \in UpstreamBodies }
    \cup { [status |-> 200, body |-> << [response |-> RemoteChunk(1)] >>] }

\* Config.GeminiAuthPassword: GEMINI_AUTH_PASSWORD, or the default when
\* that is unset or empty (config.go 72, 327-332); never the empty string.
GeminiAuthPassword == "123456"

\* base64.StdEncoding.DecodeString on the tokens presented below: <<text>>,
\* or <<>> for an error.
base64Decode(encoded) ==
    CASE encoded = "dXNlcjoxMjM0NTY=" -> <<"user:123456">>
      [] encoded = "dXNlcjp3cm9uZw==" -> <<"user:wrong">>
      [] encoded = "MTIzNDU2"         -> <<"123456">>
      [] OTHER -> <<>>

\* (mutant) any Bearer token is accepted.
AuthenticateUser_anyBearer(r) ==
    IF HasPrefix(r.authorization, "Bearer ") THEN <<"bearer_user">> ELSE <<>>

\* AuthenticateUser(r): <<username>>, or <<>> for the error result. A
\* parameter or header the request lacks reads as "".
AuthenticateUser(r) ==
    IF r.key = GeminiAuthPassword THEN <<"api_key_user">>
    ELSE IF r.goog = GeminiAuthPassword THEN <<"goog_api_key_user">>
    ELSE IF /\ HasPrefix(r.authorization, "Bearer ")
            /\ SubSeq(r.authorization, 8, Len(r.authorization)) = GeminiAuthPassword
    THEN <<"bearer_user">>
    ELSE IF HasPrefix(r.authorization, "Basic ")
    THEN LET decodedCreds == base64Decode(SubSeq(r.authorization, 7, Len(r.authorization)))
             colon == IF decodedCreds = <<>> THEN 0 ELSE IndexFrom(decodedCreds[1], ":", 1)
         IN IF colon # 0
               /\ SubSeq(decodedCreds[1], colon + 1, Len(decodedCreds[1])) = GeminiAuthPassword
            THEN << SubSeq(decodedCreds[1], 1, colon - 1) >>
            ELSE <<>>
    ELSE <<>>

\* What a request may present.
Presentations ==
    [key : {"", "123456", "wrong"},
     goog : {"", "123456", "wrong"},
     authorization : {"", "Bearer 123456", "Bearer wrong", "bearer 123456",
                      "Basic dXNlcjoxMjM0NTY=", "Basic dXNlcjp3cm9uZw==",
                      "Basic MTIzNDU2", "Basic 123456"}]

UpstreamInit ==
    /\ upPath \in {"chat", "native"}
    /\ upAuth \in Presentations
    /\ upCredsAsked = FALSE
    /\ upStream \in BOOLEAN
    /\ upRemote = <<>>
    /\ upCalls = 0
    /\ upClient = <<>>
    /\ upPc = "auth"
    /\ NamesIdle
    /\ RelayIdle
    /\ AuthIdle
    /\ PayloadIdle
    /\ TranslateIdle
    /\ SharedIdle

\* OpenAIHandler.AuthMiddleware / GeminiHandler.AuthMiddleware: the request
\* goes on to the handler, or is answered 401 and aborted.
AuthMiddleware ==
    /\ upPc = "auth"
    /\ IF AuthenticateUser(upAuth) = <<>>
       THEN /\ upClient' = << [status |-> 401,
                               body |-> [error |-> [code |-> 401]]] >>
            /\ upPc' = "rejected"
       ELSE /\ upClient' = upClient
            /\ upPc' = "creds"
    /\ UNCHANGED <<upPath, upAuth, upCredsAsked, upStream, upRemote, upCalls,
                   notUpstream>>

\* SendGeminiRequest 38-66, called by the handler: the credential is asked
\* for (and refreshed, the project resolved, the user onboarded); any of
\* these may fail, and then SendGeminiRequest returns an error.
AcquireCredentials ==
    /\ upPc = "creds"
    /\ upCredsAsked' = TRUE
    /\ \/ upRemote' = upRemote /\ upPc' = "send"
       \/ upRemote' = << [failed |-> TRUE] >> /\ upPc' = "called"
    /\ UNCHANGED <<upPath, upAuth, upStream, upCalls, upClient, notUpstream>>

\* c.httpClient.Do(req) in sendStreamingRequest / sendNonStreamingRequest:
\* the one HTTP round trip, answered by the remote or failing in transport.
RemoteCall ==
    /\ upPc = "send"
    /\ upCalls' = upCalls + 1
    /\ upRemote' \in { << [failed |-> TRUE] >> } \cup { <<a>> : a \in UpstreamAnswers }
    /\ upPc' = "called"
    /\ UNCHANGED <<upPath, upAuth, upCredsAsked, upStream, upClient, notUpstream>>

\* The rest of sendNonStreamingRequest and handleNonStreamingResponse.
AnswerNonStreaming ==
    /\ upPc = "called"
    /\ upPath = "chat"
    /\ ~upStream
    /\ LET remote == upRemote[1]
       IN upClient' =
            IF "failed" \in DOMAIN remote
            THEN << [status |-> 500,
                     body |-> [error |-> [message |-> "Request failed: request failed",
                                          type |-> "api_error", code |-> 500]]] >>
            ELSE IF remote.status # 200
            THEN << handleNonStreamingErrorResponse(
                        createErrorResponse(remote.status, remote.body)) >>
            ELSE << [status |-> 200,
                     body |-> GeminiResponseToOpenAI(remote.body[1].response,
                                                     "models/gemini-2.5-flash")] >>
    /\ upPc' = "done"
    /\ UNCHANGED <<upPath, upAuth, upCredsAsked, upStream, upRemote, upCalls,
                   notUpstream>>

\* The rest of sendStreamingRequest and handleStreamingResponse up to the
\* point where the relay of a 200 answer starts.
AnswerStreaming ==
    /\ upPc = "called"
    /\ upPath = "chat"
    /\ upStream
    /\ LET remote == upRemote[1]
       IN IF "failed" \in DOMAIN remote
          THEN /\ upClient' = << [status |-> 200,
                                  frames |-> sendStreamingError(
                                      "Streaming request failed: request failed", 500)] >>
               /\ upPc' = "done"
          ELSE IF remote.status # 200
          THEN /\ upClient' = << [status |-> 200,
                                  frames |-> handleStreamingErrorResponse(
                                      createErrorResponse(remote.status, remote.body))] >>
               /\ upPc' = "done"
          ELSE /\ upClient' = <<>>
               /\ upPc' = "relay"
    /\ UNCHANGED <<upPath, upAuth, upCredsAsked, upStream, upRemote, upCalls,
                   notUpstream>>

\* GeminiProxy 118-152: the response SendGeminiRequest returned is copied
\* to the client, status and body (for a streamed 200 answer, the stream).
AnswerNative ==
    /\ upPc = "called"
    /\ upPath = "native"
    /\ LET remote == upRemote[1]
       IN upClient' =
            IF "failed" \in DOMAIN remote
            THEN << [status |-> 500,
                     body |-> [error |-> [message |-> "Proxy error: request failed",
                                          code |-> 500]]] >>
            ELSE IF remote.status # 200
            THEN << [status |-> remote.status,
                     body |-> createErrorResponse(remote.status, remote.body).Body] >>
            ELSE IF upStream THEN << [status |-> 200, body |-> remote.body[1]] >>
            ELSE << [status |-> 200, body |-> remote.body[1].response] >>
    /\ upPc' = "done"
    /\ UNCHANGED <<upPath, upAuth, upCredsAsked, upStream, upRemote, upCalls,
                   notUpstream>>

UpstreamNext ==
    \/ AuthMiddleware
    \/ AcquireCredentials
    \/ RemoteCall
    \/ AnswerNonStreaming
    \/ AnswerStreaming
    \/ AnswerNative

SpecUpstream == UpstreamInit /\ [][UpstreamNext]_vars

(***************************************************************************)
(* Specification of concurrent requests on the shared state of pkg/auth:   *)
(* each request runs SendGeminiRequest 38-66 and 99 against the package's  *)
(* credentials, userProjectID, onboardingDone and credsFromEnv and the      *)
(* credentialsMux RWMutex. The token that is in memory when the requests    *)
(* start is object 0; a request that loads the credential again makes an    *)
(* object of its own, named by the request. A token field holds the number  *)
(* of the refresh result it came from: 0 as loaded, r as refreshed by       *)
(* request r. Time passes once: the expiry of what was loaded is reached.   *)
(***************************************************************************)
Requests == {1, 2}

\* The fields of token object id; only object 0 is ever refreshed in place.
Fields(id) ==
    IF id = 0 THEN ccToken ELSE [at |-> id, rt |-> id, tt |-> id, ex |-> id]

\* Token.Valid() for a token whose access token is set: the expiry read is
\* in the future.
IsFresh(ex) == ex # 0 \/ ~ccStale

\* The state the requests find: startup succeeded (project and onboarding
\* done, with or without GOOGLE_CLOUD_PROJECT), or startup loaded the
\* credential and failed to discover the project.
SharedInit ==
    /\ ccToken = [at |-> 0, rt |-> 0, tt |-> 0, ex |-> 0]
    /\ ccCred = 0
    /\ ccStale = FALSE
    /\ \E c \in { <<TRUE, "p", TRUE>>, <<FALSE, "p", TRUE>>, <<FALSE, "", FALSE>> } :
          /\ ccEnvProject = c[1]
          /\ ccProject = c[2]
          /\ ccOnboarded = c[3]
    /\ ccReaders = {}
    /\ ccWriter = 0
    /\ ccPc = [r \in Requests |-> "gc_rlock"]
    /\ ccTok = [r \in Requests |-> -1]
    /\ ccRet = [r \in Requests |-> ""]
    /\ ccSeen = [r \in Requests |-> [at |-> -1, ex |-> -1]]
    /\ NamesIdle
    /\ RelayIdle
    /\ AuthIdle
    /\ PayloadIdle
    /\ TranslateIdle
    /\ UpstreamIdle

\* GetCredentials 95-135, one step per lock operation and per read or write
\* of a shared field; a token that is loaded again is a new object.
GetCredentialsShared(r) ==
    \/ \* 95: RLock
       /\ ccPc[r] = "gc_rlock"
       /\ ccWriter = 0
       /\ ccReaders' = ccReaders \cup {r}
       /\ ccPc' = [ccPc EXCEPT ![r] = "gc_at"]
       /\ UNCHANGED <<ccToken, ccCred, ccStale, ccProject, ccOnboarded, ccEnvProject,
                      ccWriter, ccTok, ccRet, ccSeen, notShared>>
    \/ \* 96: credentials.Valid() reads the access token
       /\ ccPc[r] = "gc_at"
       /\ ccSeen' = [ccSeen EXCEPT ![r] = [at |-> Fields(ccCred).at, ex |-> -1]]
       /\ ccPc' = [ccPc EXCEPT ![r] = "gc_ex"]
       /\ UNCHANGED <<ccToken, ccCred, ccStale, ccProject, ccOnboarded, ccEnvProject,
                      ccReaders, ccWriter, ccTok, ccRet, notShared>>
    \/ \* 96-101: ... and the expiry; RUnlock; the valid token is returned
       /\ ccPc[r] = "gc_ex"
       /\ ccSeen' = [ccSeen EXCEPT ![r].ex = Fields(ccCred).ex]
       /\ ccReaders' = ccReaders \ {r}
       /\ IF IsFresh(Fields(ccCred).ex)
          THEN /\ ccTok' = [ccTok EXCEPT ![r] = ccCred]
               /\ ccPc' = [ccPc EXCEPT ![r] = "sg_at"]
          ELSE /\ ccTok' = ccTok
               /\ ccPc' = [ccPc EXCEPT ![r] = "gc_net"]
       /\ UNCHANGED <<ccToken, ccCred, ccStale, ccProject, ccOnboarded, ccEnvProject,
                      ccWriter, ccRet, notShared>>
    \/ \* 104-119: parseEnvCredentials / loadFileCredentials build a token of
       \* their own and refresh it over the network
       /\ ccPc[r] = "gc_net"
       /\ ccPc' = [ccPc EXCEPT ![r] = "gc_lock"]
       /\ UNCHANGED <<ccToken, ccCred, ccStale, ccProject, ccOnboarded, ccEnvProject,
                      ccReaders, ccWriter, ccTok, ccRet, ccSeen, notShared>>
    \/ \* 107, 120: Lock
       /\ ccPc[r] = "gc_lock"
       /\ ccReaders = {} /\ ccWriter = 0
       /\ ccWriter' = r
       /\ ccPc' = [ccPc EXCEPT ![r] = "gc_store"]
       /\ UNCHANGED <<ccToken, ccCred, ccStale, ccProject, ccOnboarded, ccEnvProject,
                      ccReaders, ccTok, ccRet, ccSeen, notShared>>
    \/ \* 108-110, 121-123: credentials and credsFromEnv are set; Unlock
       /\ ccPc[r] = "gc_store"
       /\ ccCred' = r
       /\ ccTok' = [ccTok EXCEPT ![r] = r]
       /\ ccWriter' = 0
       /\ ccPc' = [ccPc EXCEPT ![r] = "sg_at"]
       /\ UNCHANGED <<ccToken, ccStale, ccProject, ccOnboarded, ccEnvProject,
                      ccReaders, ccRet, ccSeen, notShared>>

\* SendGeminiRequest 47-54 and 99: the token is read with no lock held.
SendGeminiRequestShared(r) ==
    \/ \* 47: token.Valid() reads the access token
       /\ ccPc[r] = "sg_at"
       /\ ccSeen' = [ccSeen EXCEPT ![r] = [at |-> Fields(ccTok[r]).at, ex |-> -1]]
       /\ ccPc' = [ccPc EXCEPT ![r] = "sg_ex"]
       /\ UNCHANGED <<ccToken, ccCred, ccStale, ccProject, ccOnboarded, ccEnvProject,
                      ccReaders, ccWriter, ccTok, ccRet, notShared>>
    \/ \* 47-48: ... and the expiry; RefreshToken is called for an expired token
       /\ ccPc[r] = "sg_ex"
       /\ ccSeen' = [ccSeen EXCEPT ![r].ex = Fields(ccTok[r]).ex]
       /\ IF IsFresh(Fields(ccTok[r]).ex)
          THEN /\ ccRet' = ccRet
               /\ ccPc' = [ccPc EXCEPT ![r] = "gp_rlock"]
          ELSE /\ ccRet' = [ccRet EXCEPT ![r] = "sg"]
               /\ ccPc' = [ccPc EXCEPT ![r] = "rf_net"]
       /\ UNCHANGED <<ccToken, ccCred, ccStale, ccProject, ccOnboarded, ccEnvProject,
                      ccReaders, ccWriter, ccTok, notShared>>
    \/ \* 52: SaveCredentials(token, "") reads credsFromEnv and the token
       /\ ccPc[r] = "sg_save"
       /\ ccPc' = [ccPc EXCEPT ![r] = "gp_rlock"]
       /\ UNCHANGED <<ccToken, ccCred, ccStale, ccProject, ccOnboarded, ccEnvProject,
                      ccReaders, ccWriter, ccTok, ccRet, ccSeen, notShared>>
    \/ \* 99: the Authorization header is built from token.AccessToken
       /\ ccPc[r] = "send"
       /\ ccPc' = [ccPc EXCEPT ![r] = "done"]
       /\ UNCHANGED <<ccToken, ccCred, ccStale, ccProject, ccOnboarded, ccEnvProject,
                      ccReaders, ccWriter, ccTok, ccRet, ccSeen, notShared>>

\* RefreshToken 246-259 on the token of the caller (ccRet[r]): the network
\* call, then the four fields are assigned one after the other.
RefreshTokenShared(r) ==
    \/ \* 249: the token endpoint answers with a new token
       /\ ccPc[r] = "rf_net"
       /\ ccPc' = [ccPc EXCEPT ![r] = "rf_w1"]
       /\ UNCHANGED <<ccToken, ccCred, ccStale, ccProject, ccOnboarded, ccEnvProject,
                      ccReaders, ccWriter, ccTok, ccRet, ccSeen, notShared>>
    \/ \* 250-252: the token endpoint fails; discoverProjectID goes on, the
       \* other callers return the error
       /\ ccPc[r] = "rf_net"
       /\ ccPc' = [ccPc EXCEPT ![r] = IF ccRet[r] = "dp" THEN "dp_net" ELSE "done"]
       /\ UNCHANGED <<ccToken, ccCred, ccStale, ccProject, ccOnboarded, ccEnvProject,
                      ccReaders, ccWriter, ccTok, ccRet, ccSeen, notShared>>
    \/ \* 254: token.AccessToken
       /\ ccPc[r] = "rf_w1"
       /\ ccToken' = [ccToken EXCEPT !.at = r]
       /\ ccPc' = [ccPc EXCEPT ![r] = "rf_w2"]
       /\ UNCHANGED <<ccCred, ccStale, ccProject, ccOnboarded, ccEnvProject, ccReaders,
                      ccWriter, ccTok, ccRet, ccSeen, notShared>>
    \/ \* 255: token.RefreshToken
       /\ ccPc[r] = "rf_w2"
       /\ ccToken' = [ccToken EXCEPT !.rt = r]
       /\ ccPc' = [ccPc EXCEPT ![r] = "rf_w3"]
       /\ UNCHANGED <<ccCred, ccStale, ccProject, ccOnboarded, ccEnvProject, ccReaders,
                      ccWriter, ccTok, ccRet, ccSeen, notShared>>
    \/ \* 256: token.TokenType
       /\ ccPc[r] = "rf_w3"
       /\ ccToken' = [ccToken EXCEPT !.tt = r]
       /\ ccPc' = [ccPc EXCEPT ![r] = "rf_w4"]
       /\ UNCHANGED <<ccCred, ccStale, ccProject, ccOnboarded, ccEnvProject, ccReaders,
                      ccWriter, ccTok, ccRet, ccSeen, notShared>>
    \/ \* 257: token.Expiry; return to the caller
       /\ ccPc[r] = "rf_w4"
       /\ ccToken' = [ccToken EXCEPT !.ex = r]
       /\ ccPc' = [ccPc EXCEPT ![r] = CASE ccRet[r] = "sg" -> "sg_save"
                                         [] ccRet[r] = "dp" -> "dp_net"
                                         [] ccRet[r] = "ob" -> "ob_save"]
       /\ UNCHANGED <<ccCred, ccStale, ccProject, ccOnboarded, ccEnvProject, ccReaders,
                      ccWriter, ccTok, ccRet, ccSeen, notShared>>

\* GetUserProjectID 396-420: the read lock is taken at entry and released
\* by the deferred RUnlock when the function returns.
GetUserProjectIDShared(r) ==
    \/ \* 397-401: RLock; GOOGLE_CLOUD_PROJECT is looked up
       /\ ccPc[r] = "gp_rlock"
       /\ ccWriter = 0
       /\ ccReaders' = ccReaders \cup {r}
       /\ ccPc' = [ccPc EXCEPT ![r] = IF ccEnvProject THEN "gp_wenv" ELSE "gp_cached"]
       /\ UNCHANGED <<ccToken, ccCred, ccStale, ccProject, ccOnboarded, ccEnvProject,
                      ccWriter, ccTok, ccRet, ccSeen, notShared>>
    \/ \* 403: userProjectID = envProjectID
       /\ ccPc[r] = "gp_wenv"
       /\ ccProject' = "p"
       /\ ccPc' = [ccPc EXCEPT ![r] = "gp_save"]
       /\ UNCHANGED <<ccToken, ccCred, ccStale, ccOnboarded, ccEnvProject, ccReaders,
                      ccWriter, ccTok, ccRet, ccSeen, notShared>>
    \/ \* 404-405: SaveCredentials(token, envProjectID); return, RUnlock
       /\ ccPc[r] = "gp_save"
       /\ ccReaders' = ccReaders \ {r}
       /\ ccPc' = [ccPc EXCEPT ![r] = "ob_lock"]
       /\ UNCHANGED <<ccToken, ccCred, ccStale, ccProject, ccOnboarded, ccEnvProject,
                      ccWriter, ccTok, ccRet, ccSeen, notShared>>
    \/ \* 409-422: userProjectID is read; a cached ID is returned (RUnlock),
       \* else the file holds none and discoverProjectID is called
       /\ ccPc[r] = "gp_cached"
       /\ IF ccProject # ""
          THEN /\ ccReaders' = ccReaders \ {r}
               /\ ccPc' = [ccPc EXCEPT ![r] = "ob_lock"]
          ELSE /\ ccReaders' = ccReaders
               /\ ccPc' = [ccPc EXCEPT ![r] = "dp_at"]
       /\ UNCHANGED <<ccToken, ccCred, ccStale, ccProject, ccOnboarded, ccEnvProject,
                      ccWriter, ccTok, ccRet, ccSeen, notShared>>

\* discoverProjectID 426-479, called by GetUserProjectID with its read lock held.
discoverProjectIDShared(r) ==
    \/ \* 428: token.Valid() reads the access token
       /\ ccPc[r] = "dp_at"
       /\ ccSeen' = [ccSeen EXCEPT ![r] = [at |-> Fields(ccTok[r]).at, ex |-> -1]]
       /\ ccPc' = [ccPc EXCEPT ![r] = "dp_ex"]
       /\ UNCHANGED <<ccToken, ccCred, ccStale, ccProject, ccOnboarded, ccEnvProject,
                      ccReaders, ccWriter, ccTok, ccRet, notShared>>
    \/ \* 428-450: ... and the expiry; RefreshToken for an expired token, else
       \* the loadCodeAssist call is sent
       /\ ccPc[r] = "dp_ex"
       /\ ccSeen' = [ccSeen EXCEPT ![r].ex = Fields(ccTok[r]).ex]
       /\ IF IsFresh(Fields(ccTok[r]).ex)
          THEN /\ ccRet' = ccRet
               /\ ccPc' = [ccPc EXCEPT ![r] = "dp_net"]
          ELSE /\ ccRet' = [ccRet EXCEPT ![r] = "dp"]
               /\ ccPc' = [ccPc EXCEPT ![r] = "rf_net"]
       /\ UNCHANGED <<ccToken, ccCred, ccStale, ccProject, ccOnboarded, ccEnvProject,
                      ccReaders, ccWriter, ccTok, notShared>>
    \/ \* 450-472: the call answers with a project
       /\ ccPc[r] = "dp_net"
       /\ ccPc' = [ccPc EXCEPT ![r] = "dp_commit"]
       /\ UNCHANGED <<ccToken, ccCred, ccStale, ccProject, ccOnboarded, ccEnvProject,
                      ccReaders, ccWriter, ccTok, ccRet, ccSeen, notShared>>
    \/ \* 452-472: the call fails; GetUserProjectID returns the error, RUnlock
       /\ ccPc[r] = "dp_net"
       /\ ccReaders' = ccReaders \ {r}
       /\ ccPc' = [ccPc EXCEPT ![r] = "done"]
       /\ UNCHANGED <<ccToken, ccCred, ccStale, ccProject, ccOnboarded, ccEnvProject,
                      ccWriter, ccTok, ccRet, ccSeen, notShared>>
    \/ \* 475: userProjectID = projectID
       /\ ccPc[r] = "dp_commit"
       /\ ccProject' = "p"
       /\ ccPc' = [ccPc EXCEPT ![r] = "dp_save"]
       /\ UNCHANGED <<ccToken, ccCred, ccStale, ccOnboarded, ccEnvProject, ccReaders,
                      ccWriter, ccTok, ccRet, ccSeen, notShared>>
    \/ \* 476-478: SaveCredentials(token, projectID); return, RUnlock
       /\ ccPc[r] = "dp_save"
       /\ ccReaders' = ccReaders \ {r}
       /\ ccPc' = [ccPc EXCEPT ![r] = "ob_lock"]
       /\ UNCHANGED <<ccToken, ccCred, ccStale, ccProject, ccOnboarded, ccEnvProject,
                      ccWriter, ccTok, ccRet, ccSeen, notShared>>

\* OnboardUser 482-513.
OnboardUserShared(r) ==
    \/ \* 483: Lock
       /\ ccPc[r] = "ob_lock"
       /\ ccReaders = {} /\ ccWriter = 0
       /\ ccWriter' = r
       /\ ccPc' = [ccPc EXCEPT ![r] = "ob_check"]
       /\ UNCHANGED <<ccToken, ccCred, ccStale, ccProject, ccOnboarded, ccEnvProject,
                      ccReaders, ccTok, ccRet, ccSeen, notShared>>
    \/ \* 484-488: onboardingDone is read; Unlock
       /\ ccPc[r] = "ob_check"
       /\ ccWriter' = 0
       /\ ccPc' = [ccPc EXCEPT ![r] = IF ccOnboarded THEN "send" ELSE "ob_at"]
       /\ UNCHANGED <<ccToken, ccCred, ccStale, ccProject, ccOnboarded, ccEnvProject,
                      ccReaders, ccTok, ccRet, ccSeen, notShared>>
    \/ \* 491: token.Valid() reads the access token
       /\ ccPc[r] = "ob_at"
       /\ ccSeen' = [ccSeen EXCEPT ![r] = [at |-> Fields(ccTok[r]).at, ex |-> -1]]
       /\ ccPc' = [ccPc EXCEPT ![r] = "ob_ex"]
       /\ UNCHANGED <<ccToken, ccCred, ccStale, ccProject, ccOnboarded, ccEnvProject,
                      ccReaders, ccWriter, ccTok, ccRet, notShared>>
    \/ \* 491-498: ... and the expiry; RefreshToken for an expired token, else
       \* loadCodeAssist and startOnboarding are sent
       /\ ccPc[r] = "ob_ex"
       /\ ccSeen' = [ccSeen EXCEPT ![r].ex = Fields(ccTok[r]).ex]
       /\ IF IsFresh(Fields(ccTok[r]).ex)
          THEN /\ ccRet' = ccRet
               /\ ccPc' = [ccPc EXCEPT ![r] = "ob_net"]
          ELSE /\ ccRet' = [ccRet EXCEPT ![r] = "ob"]
               /\ ccPc' = [ccPc EXCEPT ![r] = "rf_net"]
       /\ UNCHANGED <<ccToken, ccCred, ccStale, ccProject, ccOnboarded, ccEnvProject,
                      ccReaders, ccWriter, ccTok, notShared>>
    \/ \* 495: SaveCredentials(token, "") reads credsFromEnv and the token
       /\ ccPc[r] = "ob_save"
       /\ ccPc' = [ccPc EXCEPT ![r] = "ob_net"]
       /\ UNCHANGED <<ccToken, ccCred, ccStale, ccProject, ccOnboarded, ccEnvProject,
                      ccReaders, ccWriter, ccTok, ccRet, ccSeen, notShared>>
    \/ \* 498-506: loadCodeAssist and startOnboarding succeed
       /\ ccPc[r] = "ob_net"
       /\ ccPc' = [ccPc EXCEPT ![r] = "ob_lock2"]
       /\ UNCHANGED <<ccToken, ccCred, ccStale, ccProject, ccOnboarded, ccEnvProject,
                      ccReaders, ccWriter, ccTok, ccRet, ccSeen, notShared>>
    \/ \* 498-506: one of them fails and the error is returned
       /\ ccPc[r] = "ob_net"
       /\ ccPc' = [ccPc EXCEPT ![r] = "done"]
       /\ UNCHANGED <<ccToken, ccCred, ccStale, ccProject, ccOnboarded, ccEnvProject,
                      ccReaders, ccWriter, ccTok, ccRet, ccSeen, notShared>>
    \/ \* 508: Lock
       /\ ccPc[r] = "ob_lock2"
       /\ ccReaders = {} /\ ccWriter = 0
       /\ ccWriter' = r
       /\ ccPc' = [ccPc EXCEPT ![r] = "ob_set"]
       /\ UNCHANGED <<ccToken, ccCred, ccStale, ccProject, ccOnboarded, ccEnvProject,
                      ccReaders, ccTok, ccRet, ccSeen, notShared>>
    \/ \* 509-510: onboardingDone = true; Unlock
       /\ ccPc[r] = "ob_set"
       /\ ccOnboarded' = TRUE
       /\ ccWriter' = 0
       /\ ccPc' = [ccPc EXCEPT ![r] = "send"]
       /\ UNCHANGED <<ccToken, ccCred, ccStale, ccProject, ccEnvProject, ccReaders,
                      ccTok, ccRet, ccSeen, notShared>>

\* The expiry of the token that was loaded is reached.
ExpiryPasses ==
    /\ ~ccStale
    /\ ccStale' = TRUE
    /\ UNCHANGED <<ccToken, ccCred, ccProject, ccOnboarded, ccEnvProject, ccReaders,
                   ccWriter, ccPc, ccTok, ccRet, ccSeen, notShared>>

SharedNext ==
    \/ \E r \in Requests :
          \/ GetCredentialsShared(r)
          \/ SendGeminiRequestShared(r)
          \/ RefreshTokenShared(r)
          \/ GetUserProjectIDShared(r)
          \/ discoverProjectIDShared(r)
          \/ OnboardUserShared(r)
    \/ ExpiryPasses

SpecShared == SharedInit /\ [][SharedNext]_vars

(***************************************************************************)
(* Claims about the StreamingRelay (checked under SpecRelay).               *)
(***************************************************************************)
\* A remote line that is a data event with a decodable payload.
IsDecodableEvent(line) == line.head = "data: " /\ line.obj # <<>>

\* One frame per decodable event among the first n remote lines, in arrival
\* order, each carrying that event's chunk without its envelope.
EventFrames(n) ==
    LET events == SelectSeq(SubSeq(rlRemote, 1, n), IsDecodableEvent)
    IN [i \in 1..Len(events) |-> DataFrame(RemoteChunk(events[i].id))]

IsErrorEvent(frame) == "json" \in DOMAIN frame /\ "error" \in DOMAIN frame.json

IsEventFrame(frame) == "json" \in DOMAIN frame /\ "error" \notin DOMAIN frame.json

\* Everything the worker has produced for the channel so far.
WorkerOutput == emitted \o (IF wPc \in {"send", "senderr"} THEN wPending ELSE <<>>)

\* C3: on the chat endpoint with stream=true, every outbound data frame
\* produced from a decodable remote event equals the per-chunk translation
\* (GeminiStreamChunkToOpenAI) of that event after envelope unwrapping.
\* (Stated as in the claim; the handler forwards the relay's frames as they
\* are, so the client gets the remote chunk, not its translation.)
C3_StreamFramesTranslated ==
    LET frames == SelectSeq(written, IsEventFrame)
        events == SelectSeq(SubSeq(rlRemote, 1, rlPos), IsDecodableEvent)
    IN \A i \in 1..Len(frames) :
          i <= Len(events) =>
             frames[i] = DataFrame(GeminiStreamChunkToOpenAI(
                             RemoteChunk(events[i].id), "gemini-2.5-pro", "chatcmpl-1"))

\* C4: the relay emits exactly one frame per decodable data event, in the
\* order the events arrived, and nothing for keep-alive, sentinel, empty,
\* non-data lines or undecodable payloads, which do not stop the stream.
C4_RelayOrder ==
    SelectSeq(WorkerOutput, IsEventFrame) = EventFrames(rlPos)

C4_Witness ==
    /\ wPc = "exit"
    /\ ~wErr
    /\ rlPos = 3
    /\ rlRemote[1].head = "data: {oops"
    /\ rlRemote[2].head = "data: [DONE]"
    /\ emitted = << DataFrame(RemoteChunk(3)) >>

\* C5: a streaming chat response that no client write failure cut short
\* ends with exactly one data: [DONE] frame and nothing is written after it
\* (clean exhaustion, mid-stream read failure, non-success status, failed
\* dispatch).
C5_DoneTerminates ==
    /\ \A i \in 1..Len(written) : written[i] = DoneFrame => i = Len(written)
    /\ (hPc = "returned" /\ ~writeFailed) =>
          (Len(written) > 0 /\ written[Len(written)] = DoneFrame)

C5_Witness ==
    /\ hPc = "returned"
    /\ ~writeFailed
    /\ wErr
    /\ Len(written) = 3
    /\ IsEventFrame(written[1])
    /\ IsErrorEvent(written[2])
    /\ written[3] = DoneFrame

\* C6: when reading the remote stream fails the relay emits exactly one
\* synthetic error event, after all frames already forwarded, then nothing
\* more, and closes its output; when the stream ends cleanly it emits no
\* error event and no terminal sentinel of its own.
C6_RelayErrorEvent ==
    wPc = "exit" =>
       /\ chClosed
       /\ wPending = <<>>
       /\ IF wErr
          THEN /\ Len(emitted) = Len(EventFrames(rlPos)) + 1
               /\ SubSeq(emitted, 1, Len(emitted) - 1) = EventFrames(rlPos)
               /\ IsErrorEvent(emitted[Len(emitted)])
          ELSE /\ emitted = EventFrames(rlPos)
               /\ rlPos = Len(rlRemote)

C6_Witness ==
    /\ wPc = "exit"
    /\ wErr
    /\ Len(emitted) = 2
    /\ IsEventFrame(emitted[1])
    /\ IsErrorEvent(emitted[2])

\* C7: when the client disconnects during a streaming response (a write
\* fails and the handler returns), the relay worker terminates and the
\* remote connection is closed.  Once the handler has returned nothing else
\* can unblock the worker, so it terminates only if it has exited or can
\* still take a step.  (Stated as in the claim; the worker stays blocked on
\* its channel send, which no one receives any more.)
C7_WorkerTerminatesOnDisconnect ==
    (hPc = "returned" /\ writeFailed /\ outcome = "ok") =>
       /\ bodyClosed
       /\ (wPc = "exit" \/ ENABLED WorkerNext)

(***************************************************************************)
(* Claims about the CredentialManager (checked under Spec).                 *)
(***************************************************************************)
\* C1: in OnboardUser, when the process is not yet onboarded and the status
\* probe reports an assigned tier, the onboarded flag is set and the call
\* returns success without submitting any onboarding request.
\* (Stated as in the claim; the code goes on to startOnboarding after the
\* probe whatever it reported.)
C1_TierProbeSkipsOnboarding ==
    (ob.called /\ ~ob.entryDone /\ ob.tier) =>
        /\ onboardingDone
        /\ ob.reqs = 0
        /\ ob.ret # "err"

\* C8: a GetCredentials call that finds a valid in-memory credential returns
\* that credential and consults neither the environment blob nor the file;
\* a call without one, made while the environment blob carries a refresh
\* token and the credential file exists, returns the environment credential
\* and does not load the file's token.
C8_EnvBeforeFile ==
    acq.called =>
        /\ acq.memValid =>
              /\ acq.source = "memory"
              /\ acq.ret = "ok"
              /\ acq.after = acq.before
              /\ ~acq.envParsed
              /\ ~acq.fileLoaded
        /\ (~acq.memValid /\ acq.envUsable /\ acq.fileExisted) =>
              /\ acq.source = "env"
              /\ acq.ret = "ok"
              /\ acq.envParsed
              /\ ~acq.fileLoaded
              /\ acq.after[1].RefreshToken = envCreds.obj["refresh_token"]

\* A call that chose the environment blob over a file that holds a refresh
\* token of its own.
C8_Witness ==
    /\ acq.called
    /\ ~acq.memValid
    /\ acq.source = "env"
    /\ credFile.kind = "json"
    /\ HasRefreshToken(credFile.obj)
    /\ credentials[1].RefreshToken = "rt-env"

\* The file after the step is the file before it, or the file before it with
\* a project_id added where there was none.
FileKeptOrProjectAdded ==
    \/ credFile' = credFile
    \/ /\ credFile.kind = "json"
       /\ credFile'.kind = "json"
       /\ "project_id" \notin DOMAIN credFile.obj
       /\ DOMAIN credFile'.obj = DOMAIN credFile.obj \cup {"project_id"}
       /\ \A k \in DOMAIN credFile.obj : credFile'.obj[k] = credFile.obj[k]

\* C9: while the live credential is marked as coming from the environment,
\* no step of acquire, refresh, project resolution, onboarding or dispatch
\* writes the credential file except to add a project_id to a file that has
\* none; the token fields of the file stay as they were.
C9_EnvCredentialNeverRewritten ==
    [][credsFromEnv => FileKeptOrProjectAdded]_vars

\* An environment credential that was refreshed, with a project ID found by
\* the API and attached to a file whose own token is untouched.
C9_Witness ==
    /\ credsFromEnv
    /\ acq.called
    /\ acq.source = "env"
    /\ caller = "startup"
    /\ credentials[1].AccessToken # "at-env"
    /\ credFile.kind = "json"
    /\ getProjectIDFromFile(credFile) = "p-api"
    /\ HasRefreshToken(credFile.obj)
    /\ credFile.obj["token"] = "at-file"
    /\ credFile.obj["refresh_token"] = "rt-file"

\* C10: an OnboardUser call entered with the onboarded flag set returns
\* success and issues neither a status probe nor an onboarding request.
C10_OnboardIdempotent ==
    (ob.called /\ ob.entryDone) =>
        /\ ob.ret = "ok"
        /\ ob.probes = 0
        /\ ob.reqs = 0
        /\ pc \notin {"probe", "poll"}

\* A later request's call, made with an expired token, that returned at once.
C10_Witness ==
    /\ ob.called
    /\ ob.entryDone
    /\ ob.ret = "ok"
    /\ caller = "request"
    /\ ~Valid(credentials[1], now)

\* C11: GetUserProjectID returns the GOOGLE_CLOUD_PROJECT override if set,
\* else the in-memory project ID if non-empty, else the credential file's
\* project ID if non-empty, else what discovery finds; the discovery call is
\* made only when the three earlier sources are empty, a discovered ID is
\* cached in memory, and no call after a successful discovery makes a
\* discovery call.
\* (Stated as in the claim; re-reading an environment blob whose project_id
\* is the empty string clears the cached ID, and discovery is called again.)
C11_ProjectPriority ==
    res.called =>
        /\ res.override # "" =>
              res.ret = "ok" /\ res.projectID = res.override /\ ~res.probed
        /\ (res.override = "" /\ res.cache # "") =>
              res.ret = "ok" /\ res.projectID = res.cache /\ ~res.probed
        /\ (res.override = "" /\ res.cache = "" /\ res.onDisk # "") =>
              res.ret = "ok" /\ res.projectID = res.onDisk /\ ~res.probed
        /\ res.probed => (res.override = "" /\ res.cache = "" /\ res.onDisk = "")
        /\ (res.probed /\ res.ret = "ok") =>
              res.projectID # "" /\ res.cacheAfter = res.projectID
        /\ res.earlier => ~res.probed

\* The fields a write of refreshed token fields or of a project ID updates.
UpdatedFields == {"token", "access_token", "refresh_token", "expiry", "project_id"}

\* C12: whenever a step writes a project ID or refreshed token fields to an
\* existing credential file, every other field the file had, known to the
\* gateway or not, is still there with the same value.
\* (Stated as in the claim; outside the environment case SaveCredentials
\* writes a new object of its own keys and drops what it does not know.)
C12_SavePreservesOtherFields ==
    [][(credFile.kind = "json" /\ credFile' # credFile) =>
          /\ credFile'.kind = "json"
          /\ \A k \in DOMAIN credFile.obj \ UpdatedFields :
                /\ k \in DOMAIN credFile'.obj
                /\ credFile'.obj[k] = credFile.obj[k]]_vars

FlashClass(base) == Contains(base, "-flash")
ProClass(base) == Contains(base, "-pro")

\* C19: the thinking budget of a name is 0 for a flash-class nothinking
\* variant, 128 for a pro-class nothinking variant, 24576 for a flash-class
\* maxthinking variant, 32768 for a pro-class maxthinking variant and -1 for
\* a name without a thinking suffix, with or without the search suffix.
C19_ThinkingBudgetTable ==
    nmPc = "configured" =>
        nmBudget = CASE "nothinking" \in nmFlags /\ FlashClass(nmBase) -> 0
                     [] "nothinking" \in nmFlags /\ ProClass(nmBase) -> 128
                     [] "maxthinking" \in nmFlags /\ FlashClass(nmBase) -> 24576
                     [] "maxthinking" \in nmFlags /\ ProClass(nmBase) -> 32768
                     [] OTHER -> -1

\* The budget of a flash-class name that carries the search suffix as well.
C19_Witness ==
    /\ nmPc = "configured"
    /\ nmFlags = {"search", "nothinking"}
    /\ FlashClass(nmBase)
    /\ nmBudget = 0

\* C20: visible reasoning is suppressed exactly for the nothinking variants
\* of flash-class models; it is shown for the nothinking variants of
\* pro-class models and for every other name.
C20_ThoughtsVisibility ==
    nmPc = "configured" =>
        (nmThoughts <=> ~("nothinking" \in nmFlags /\ FlashClass(nmBase)))

\* A flash-class nothinking name, for which reasoning is suppressed.
C20_Witness ==
    /\ nmPc = "configured"
    /\ "nothinking" \in nmFlags
    /\ FlashClass(nmBase)
    /\ ~nmThoughts

(***************************************************************************)
(* Claims about the payload builders (checked under SpecPayload).           *)
(***************************************************************************)
\* The remote request of the payload that was built.
BuiltRequest == pyOut[1].request

\* A table of ten distinct categories, each with the block-nothing threshold.
IsBlockNothingTable(table) ==
    /\ Len(table) = 10
    /\ Cardinality({ table[i].category : i \in 1..Len(table) }) = 10
    /\ \A i \in 1..Len(table) : table[i].threshold = "BLOCK_NONE"

\* C14: every payload built on the chat path or the native path contains a
\* safety table; when the caller supplied none it is the fixed table of ten
\* categories, every threshold being the block-nothing value.
C14_SafetyTablePresent ==
    pyPc \in {"built", "rebuilt"} =>
        /\ "safetySettings" \in DOMAIN BuiltRequest
        /\ (pyPc = "built" /\ "safetySettings" \notin DOMAIN pyBody) =>
              /\ IsBlockNothingTable(BuiltRequest["safetySettings"])
              /\ BuiltRequest["safetySettings"] = getDefaultSafetySettings

\* A native request without a table, built.
C14_Witness ==
    /\ pyPc = "built"
    /\ pyPath = "native"
    /\ "safetySettings" \notin DOMAIN pyBody
    /\ IsBlockNothingTable(BuiltRequest["safetySettings"])

\* C15: on the native path, a request that carries a safety table of its own
\* keeps it: the payload has the caller's table, not the default one.
\* (Stated as in the claim; the builder sets the configured table whatever
\* the request carries.)
C15_NativeCallerTableKept ==
    (pyPc = "built" /\ pyPath = "native" /\ "safetySettings" \in DOMAIN pyBody) =>
        BuiltRequest["safetySettings"] = pyBody["safetySettings"]

\* The tools the caller supplied (none on the chat path, whose request type
\* has no tools field).
CallerTools ==
    IF pyPath = "native" /\ "tools" \in DOMAIN pyBody THEN pyBody["tools"] ELSE <<>>

CallerHasTools == pyPath = "native" /\ "tools" \in DOMAIN pyBody

SearchToolCount(tools) ==
    Cardinality({ i \in 1..Len(tools) : "googleSearch" \in DOMAIN tools[i] })

\* C16: for a search variant the payload has exactly one search tool: the
\* caller's tools as they are when they hold one, the caller's tools with the
\* search tool appended when they hold none; for any other model the tools
\* are as the caller supplied them (absent when absent); and building again
\* from the built request gives the same payload.
C16_SearchToolIdempotent ==
    /\ (pyPc = "built" /\ IsSearchModel(pyModel)) =>
          /\ "tools" \in DOMAIN BuiltRequest
          /\ SearchToolCount(BuiltRequest["tools"]) = 1
          /\ BuiltRequest["tools"] =
                IF SearchToolCount(CallerTools) > 0 THEN CallerTools
                ELSE Append(CallerTools, googleSearchTool)
    /\ (pyPc = "built" /\ ~IsSearchModel(pyModel)) =>
          /\ "tools" \in DOMAIN BuiltRequest <=> CallerHasTools
          /\ CallerHasTools => BuiltRequest["tools"] = CallerTools
    /\ pyPc = "rebuilt" => pyOut = pyPrev

\* A search variant whose caller sent another tool only: the search tool was
\* appended once, and the second build left the payload as it was.
C16_Witness ==
    /\ pyPc = "rebuilt"
    /\ IsSearchModel(pyModel)
    /\ CallerTools = <<codeExecutionTool>>
    /\ BuiltRequest["tools"] = <<codeExecutionTool, googleSearchTool>>

\* The thinking configuration the caller supplied: <<>> or <<object>>.
CallerThinkingConfig ==
    IF /\ pyPath = "native"
       /\ "generationConfig" \in DOMAIN pyBody
       /\ "thinkingConfig" \in DOMAIN pyBody["generationConfig"]
    THEN << pyBody["generationConfig"]["thinkingConfig"] >>
    ELSE <<>>

\* C17: for every name of the image-only model the payload built on either
\* path has no thinking configuration of the gateway's making: no
\* thinkingConfig object, no budget, no visibility flag is added to the
\* generation config (what the caller sent stays what it was).
\* (Stated as in the claim; the native builder creates an empty
\* thinkingConfig object before it looks at the model name.)
C17_ImageModelNoThinkingConfig ==
    (pyPc = "built" /\ Contains(pyModel, "gemini-2.5-flash-image")) =>
        IF CallerThinkingConfig # <<>>
        THEN BuiltRequest["generationConfig"]["thinkingConfig"] = CallerThinkingConfig[1]
        ELSE \/ "generationConfig" \notin DOMAIN BuiltRequest
             \/ "thinkingConfig" \notin DOMAIN BuiltRequest["generationConfig"]

\* C18: on the chat path a stop field that is one string gives the stop
\* sequences <<that string>>, a stop field that is a list of strings gives
\* that list in that order, and without a stop field the generation config
\* has no stop sequences.
\* (Stated as in the claim; a decoded JSON list is a []interface{}, which the
\* type switch does not match, so a list gives no stop sequences.)
C18_StopSequences ==
    (pyPc = "built" /\ pyPath = "chat") =>
        LET generationConfig == BuiltRequest["generationConfig"]
        IN IF "stop" \notin DOMAIN pyBody
           THEN "stopSequences" \notin DOMAIN generationConfig
           ELSE /\ pyBody["stop"].t = "string" =>
                      /\ "stopSequences" \in DOMAIN generationConfig
                      /\ generationConfig["stopSequences"] = <<pyBody["stop"].v>>
                /\ pyBody["stop"].t = "array" =>
                      /\ "stopSequences" \in DOMAIN generationConfig
                      /\ generationConfig["stopSequences"] =
                            [i \in 1..Len(pyBody["stop"].v) |-> pyBody["stop"].v[i].v]

\* C21: the generated catalog holds, for every base model that supports
\* content generation, its -search variant, and for every base model of the
\* two 2.5 families its -nothinking, -maxthinking, -search-nothinking and
\* -search-maxthinking variants; no name occurs twice in the catalog.
\* (Stated as in the claim; the image model is left out of the -search and
\* the thinking loops and still gets the two combined variants.)
C21_CatalogVariants ==
    nmCatalog # <<>> =>
        LET names == { nmCatalog[i].Name : i \in 1..Len(nmCatalog) }
        IN /\ \A i \in 1..Len(getBaseModels) :
                 LET model == getBaseModels[i]
                 IN /\ contains(model.SupportedGenerationMethods, "generateContent") =>
                          model.Name \o "-search" \in names
                    /\ (Contains(model.Name, "gemini-2.5-flash") \/
                        Contains(model.Name, "gemini-2.5-pro")) =>
                          /\ model.Name \o "-nothinking" \in names
                          /\ model.Name \o "-maxthinking" \in names
                          /\ model.Name \o "-search-nothinking" \in names
                          /\ model.Name \o "-search-maxthinking" \in names
           /\ Cardinality(names) = Len(nmCatalog)

(***************************************************************************)
(* Claims about the message and candidate translations (checked under      *)
(* SpecTranslate).                                                          *)
(***************************************************************************)
\* The parts a message written from segs stands for: one inline part per
\* data-URI image reference, one text part per other piece.
PiecesOf(segs) ==
    [i \in 1..Len(segs) |->
        IF segs[i].kind = "image"
        THEN [inlineData |-> [mimeType |-> segs[i].mimeType, data |-> segs[i].data]]
        ELSE [text |-> segs[i].raw]]

\* A part list with neighbouring text parts run together and empty text
\* parts left out: what the list says, whatever way its text is cut.
RECURSIVE RunTogether(_)
RunTogether(parts) ==
    IF Len(parts) = 0 THEN <<>>
    ELSE IF "text" \notin DOMAIN parts[1] THEN <<parts[1]>> \o RunTogether(Tail(parts))
    ELSE IF parts[1].text = "" THEN RunTogether(Tail(parts))
    ELSE IF Len(parts) >= 2 /\ "text" \in DOMAIN parts[2]
    THEN RunTogether(<< [text |-> parts[1].text \o parts[2].text] >>
                     \o SubSeq(parts, 3, Len(parts)))
    ELSE <<parts[1]>> \o RunTogether(Tail(parts))

IsThoughtPart(part) ==
    "text" \in DOMAIN part /\ "thought" \in DOMAIN part /\ part.thought

IsVisiblePart(part) ==
    \/ "text" \in DOMAIN part /\ ~IsThoughtPart(part)
    \/ /\ "inlineData" \in DOMAIN part
       /\ HasPrefix(part.inlineData.mimeType, "image/")

VisiblePiece(part) ==
    IF "text" \in DOMAIN part THEN part.text
    ELSE "![image](data:" \o part.inlineData.mimeType \o ";base64,"
            \o part.inlineData.data \o ")"

CandidateParts == trCandidate[1].content.parts

VisibleText ==
    LET visible == SelectSeq(CandidateParts, IsVisiblePart)
    IN Join([i \in 1..Len(visible) |-> VisiblePiece(visible[i])], "\n\n")

ReasoningText ==
    LET thoughts == SelectSeq(CandidateParts, IsThoughtPart)
    IN Join([i \in 1..Len(thoughts) |-> thoughts[i].text], "")

\* A field of an outbound choice that is unset reads as the empty text.
TextOrEmpty(opt) == IF opt = <<>> THEN "" ELSE opt[1]

\* C23: for a remote candidate, the full-response translation and the
\* per-chunk translation both give as visible text the non-thought text
\* parts and the re-embedded image references, in arrival order, joined by
\* a blank line, and as reasoning text the thought-flagged text parts
\* concatenated in arrival order; the two give the same finish reason.
C23_TranslationsAgree ==
    /\ trFull # <<>> =>
          /\ trFull[1].message.content = VisibleText
          /\ TextOrEmpty(trFull[1].message.reasoning_content) = ReasoningText
    /\ trChunk # <<>> =>
          /\ TextOrEmpty(trChunk[1].delta.content) = VisibleText
          /\ TextOrEmpty(trChunk[1].delta.reasoning_content) = ReasoningText
    /\ trFull # <<>> /\ trChunk # <<>> =>
          trFull[1].finish_reason = trChunk[1].finish_reason

C23_Witness ==
    /\ trFull # <<>>
    /\ trChunk # <<>>
    /\ \E i, j, k \in 1..Len(CandidateParts) :
          /\ IsThoughtPart(CandidateParts[i])
          /\ "inlineData" \in DOMAIN CandidateParts[j]
          /\ "text" \in DOMAIN CandidateParts[k] /\ ~IsThoughtPart(CandidateParts[k])
    /\ trFull[1].message.reasoning_content = <<"b">>
    /\ trFull[1].finish_reason = <<"length">>

\* C24: the contents built for a request hold one entry per message, in the
\* messages' order, with role model for assistant and role user for system
\* and for user; and a candidate that carries role model, such as one that
\* repeats the content built for an assistant message, comes back with
\* role assistant.
C24_RoleRoundTrip ==
    /\ trPc \in {"sent", "answered"} /\ trMessages # <<>> =>
          /\ Len(trContents) = Len(trMessages)
          /\ \A i \in 1..Len(trMessages) :
                /\ trMessages[i].Role = "assistant" => trContents[i].role = "model"
                /\ trMessages[i].Role \in {"system", "user"} =>
                      trContents[i].role = "user"
                /\ trMessages[i].Content = JStr("hi") =>
                      trContents[i].parts = << [text |-> "hi"] >>
          /\ RunTogether(trContents[1].parts) = RunTogether(PiecesOf(trSegs))
    /\ trFull # <<>> =>
          /\ trCandidate[1].content.role = "model" =>
                trFull[1].message.role = "assistant"
          /\ \A i \in 1..Len(trMessages) :
                trMessages[i].Role = "assistant"
                   /\ trCandidate[1].content = trContents[i] =>
                      trFull[1].message.role = "assistant"

C24_Witness ==
    /\ trFull # <<>>
    /\ Len(trMessages) = 2
    /\ trMessages[1].Role = "system"
    /\ trMessages[2].Role = "assistant"
    /\ trContents[1].role = "user"
    /\ trCandidate[1].content = trContents[2]
    /\ trFull[1].message.role = "assistant"

\* C25: the outbound finish reason is stop for STOP, length for MAX_TOKENS,
\* content_filter for SAFETY and for RECITATION, and unset for every other
\* string, for a value that is not a string and for an absent value.
C25_FinishReasonTable ==
    \A choice \in {trFull, trChunk} :
        choice # <<>> =>
            LET reason == Field(trCandidate[1], "finishReason")
                out == choice[1].finish_reason
            IN IF reason = JStr("STOP") THEN out = <<"stop">>
               ELSE IF reason = JStr("MAX_TOKENS") THEN out = <<"length">>
               ELSE IF reason \in {JStr("SAFETY"), JStr("RECITATION")}
               THEN out = <<"content_filter">>
               ELSE out = <<>>

C25_Witness ==
    /\ trFull # <<>>
    /\ trChunk # <<>>
    /\ Field(trCandidate[1], "finishReason") = JStr("RECITATION")
    /\ trFull[1].finish_reason = <<"content_filter">>
    /\ trChunk[1].finish_reason = <<"content_filter">>

(***************************************************************************)
(* Claims about the generation call (checked under SpecUpstream).          *)
(***************************************************************************)
\* The remote answered the generation call with a status other than 200.
RemoteRefused == upRemote # <<>> /\ "status" \in DOMAIN upRemote[1]
                    /\ upRemote[1].status # 200

\* The message of the remote's error, <<>> when its body carries none.
RemoteMessage ==
    LET body == upRemote[1].body
    IN IF body # <<>> /\ "error" \in DOMAIN body[1] /\ "message" \in DOMAIN body[1].error
       THEN << body[1].error.message >> ELSE <<>>

\* C26: when the remote answers the generation call with a status S other
\* than 200, no second generation call is issued for the request, and the
\* client gets S with the remote's error message: without streaming as the
\* HTTP status and the error body, with streaming as one error frame that
\* carries code S.
C26_UpstreamErrorSurfaced ==
    /\ upCalls <= 1
    /\ RemoteRefused /\ upPc = "done" /\ upPath = "chat" =>
          LET S == upRemote[1].status
              answer == upClient[1]
          IN IF ~upStream
             THEN /\ answer.status = S
                  /\ answer.body.error.code = S
                  /\ RemoteMessage # <<>> =>
                        answer.body.error.message = RemoteMessage[1]
             ELSE LET errors == SelectSeq(answer.frames, IsErrorEvent)
                  IN /\ Len(errors) = 1
                     /\ errors[1].json.error.code = S
                     /\ RemoteMessage # <<>> =>
                           errors[1].json.error.message = RemoteMessage[1]

C26_Witness ==
    /\ RemoteRefused
    /\ upPc = "done"
    /\ upPath = "chat"
    /\ upStream
    /\ upCalls = 1
    /\ upRemote[1].status = 429
    /\ RemoteMessage = <<"quota exceeded">>
    /\ upClient[1].frames[1].json.error.message = "quota exceeded"

\* The request presents the configured password in one of the four ways.
PresentsPassword ==
    \/ upAuth.key = GeminiAuthPassword
    \/ upAuth.goog = GeminiAuthPassword
    \/ upAuth.authorization = "Bearer " \o GeminiAuthPassword
    \/ upAuth.authorization = "Basic dXNlcjoxMjM0NTY="

\* C27: a request gets past the middleware to the chat or native handler
\* only if it presents the configured password as Bearer token, as the
\* password of Basic auth, as the key query parameter or as the
\* x-goog-api-key header; every other request is answered 401, and for it
\* no credential is asked for and no remote call is made.
C27_OnlyAuthenticatedReachHandler ==
    /\ upPc \in {"creds", "send", "called", "relay", "done"} => PresentsPassword
    /\ upCredsAsked \/ upCalls > 0 => PresentsPassword
    /\ ~PresentsPassword /\ upPc # "auth" =>
          /\ upPc = "rejected"
          /\ upClient # <<>>
          /\ upClient[1].status = 401

C27_Witness ==
    /\ upPc = "rejected"
    /\ upAuth.authorization = "Basic dXNlcjp3cm9uZw=="
    /\ upAuth.key = "wrong"
    /\ upClient[1].status = 401
    /\ ~upCredsAsked
    /\ upCalls = 0

\* The shared fields the step a request stands before reads and writes. The
\* fields of a token count while the token is the one credentials points to.
\* SaveCredentials 331-364 reads credsFromEnv and, for a credential that did
\* not come from the environment, the token.
TokenFields(r, names) ==
    IF ccTok[r] = ccCred THEN {<<"token", n>> : n \in names} ELSE {}

ReadsAt(r) ==
    CASE ccPc[r] = "gc_at" -> {<<"credentials">>, <<"token", "at">>}
      [] ccPc[r] = "gc_ex" -> {<<"credentials">>, <<"token", "ex">>}
      [] ccPc[r] \in {"sg_at", "dp_at", "ob_at", "send"} -> TokenFields(r, {"at"})
      [] ccPc[r] \in {"sg_ex", "dp_ex", "ob_ex"} -> TokenFields(r, {"ex"})
      [] ccPc[r] \in {"sg_save", "gp_save", "dp_save", "ob_save"} ->
            {<<"credsFromEnv">>} \cup TokenFields(r, {"at", "rt", "tt", "ex"})
      [] ccPc[r] = "gp_cached" -> {<<"userProjectID">>}
      [] ccPc[r] = "ob_check" -> {<<"onboardingDone">>}
      [] OTHER -> {}

WritesAt(r) ==
    CASE ccPc[r] = "gc_store" -> {<<"credentials">>, <<"credsFromEnv">>}
      [] ccPc[r] = "rf_w1" -> TokenFields(r, {"at"})
      [] ccPc[r] = "rf_w2" -> TokenFields(r, {"rt"})
      [] ccPc[r] = "rf_w3" -> TokenFields(r, {"tt"})
      [] ccPc[r] = "rf_w4" -> TokenFields(r, {"ex"})
      [] ccPc[r] \in {"gp_wenv", "dp_commit"} -> {<<"userProjectID">>}
      [] ccPc[r] = "ob_set" -> {<<"onboardingDone">>}
      [] OTHER -> {}

\* C28: in every interleaving of concurrent requests, a request that stands
\* before a read of the shared credential, project ID, onboarded or
\* from-environment field holds credentialsMux (for reading or writing), a
\* request that stands before a write of one holds it for writing, and no
\* request stands before a write of a field that another request stands
\* before reading or writing.
C28_LockDiscipline ==
    \A r \in Requests :
        /\ ReadsAt(r) # {} => (r \in ccReaders \/ ccWriter = r)
        /\ WritesAt(r) # {} => ccWriter = r
        /\ \A q \in Requests \ {r} :
              WritesAt(r) \cap (WritesAt(q) \cup ReadsAt(q)) = {}

\* C29: no request holds credentialsMux, for reading or for writing, while
\* its refresh or its project discovery call is in flight, and a request that
\* commits the result of such a call (the refreshed token fields, the
\* discovered project, the reloaded credential) holds the lock for writing.
C29_NoLockAcrossNetwork ==
    \A r \in Requests :
        /\ ccPc[r] \in {"gc_net", "rf_net", "dp_net"} =>
              (r \notin ccReaders /\ ccWriter # r)
        /\ ccPc[r] \in {"gc_store", "rf_w1", "rf_w2", "rf_w3", "rf_w4", "dp_commit"} =>
              ccWriter = r

\* C30: the access token and the expiry that one validity test of a request
\* reads come from the same refresh result, or both from before any refresh:
\* no request observes the shared token between two of the assignments of
\* RefreshToken.
C30_NoPartialRefreshSeen ==
    \A r \in Requests :
        (ccSeen[r].at # -1 /\ ccSeen[r].ex # -1) => ccSeen[r].at = ccSeen[r].ex

\* The requests that have started the onboarding handshake (loadCodeAssist,
\* then startOnboarding) and have not yet set the flag.
InHandshake == {r \in Requests : ccPc[r] \in {"ob_net", "ob_lock2", "ob_set"}}

\* C31: of the concurrent requests that arrive before the process is
\* onboarded, at most one has started the onboarding handshake; the others
\* wait for or observe its result and submit no onboarding request of their
\* own.
C31_SingleOnboardingHandshake ==
    Cardinality(InHandshake) <= 1

\* The positions of steps that hold the given step.
StepsOf(name) == {i \in 1..Len(steps) : steps[i].step = name}

\* The errors SendGeminiRequest returns for a failed step.
DispatchErrors ==
    {"authentication failed", "no credentials", "token refresh failed",
     "no access token available", "no project ID", "onboarding failed"}

\* C32: within a request, a step that failed (credential acquisition, a
\* refresh of an expired token, project resolution, onboarding) is the last
\* thing the request did: the request has ended with an error, nothing was
\* tried again after it and no generation call was issued; and the
\* generation call is issued only after acquisition, project resolution and
\* onboarding succeeded, once each and in that order.
\* (A request that ends in the panic of a second browser flow is counted as
\* ended here; that crash is the subject of C39.)
C32_StepsBeforeCall ==
    caller = "request" =>
        /\ \A i \in 1..Len(steps) :
              ~steps[i].ok =>
                  /\ i = Len(steps)
                  /\ pc = "done"
                  /\ result \in DispatchErrors \cup {"panic"}
        /\ (pc = "send" \/ StepsOf("send") # {}) =>
              \E a, p, o \in 1..Len(steps) :
                  /\ a < p /\ p < o
                  /\ StepsOf("acquire") = {a}
                  /\ StepsOf("project") = {p}
                  /\ StepsOf("onboard") = {o}
                  /\ \A s \in StepsOf("send") : o < s

\* The OnboardUser call is in its polling loop or has left it.
Polled == ob.called /\ ob.reqs > 0

\* What holds of the polling loop in every state: every answer before the
\* last was a pending one and was followed by one sleep; the loop is asleep
\* exactly after a pending answer; a failed request ended the call with the
\* error, a done answer ended it with success and the flag set.
PollingShape ==
    Polled =>
        /\ ob.reqs = Len(ob.answers)
        /\ \A i \in 1..(ob.reqs - 1) : ob.answers[i] = "pending"
        /\ ob.sleeps = IF pc = "sleep" THEN ob.reqs - 1
                       ELSE IF pc = "poll" THEN ob.reqs
                       ELSE ob.reqs - 1
        /\ pc = "sleep" => ob.answers[ob.reqs] = "pending"
        /\ pc = "poll" => ob.answers[ob.reqs] = "pending"
        /\ ob.answers[ob.reqs] = "fail" <=> ob.ret = "err"
        /\ ob.answers[ob.reqs] = "done" <=> ob.ret = "ok"
        /\ ob.ret = "err" => (pc = "done" /\ result = "onboarding failed")
        /\ ob.ret = "ok" => onboardingDone

\* After the call has failed no further onboarding request is made by it.
NoRequestAfterFailure ==
    (Polled /\ ob.ret = "err" /\ ob'.called) => ob'.answers = ob.answers

\* C33: in the polling loop of startOnboarding, an answer that is successful
\* but not done is followed, after the sleep, by another onboarding request;
\* when the remote comes to answer done and no request fails, OnboardUser
\* returns success with onboardingDone set; a request that fails (status
\* other than 200, undecodable body) makes OnboardUser fail at once, with no
\* further request.
C33_OnboardingPoll ==
    /\ []PollingShape
    /\ [][NoRequestAfterFailure]_vars
    /\ \A n \in 1..MaxPolls :
          (pc = "sleep" /\ ob.reqs = n) ~> (ob.called /\ ob.reqs = n + 1)
    /\ (pc = "poll") ~> (ob.called /\ ob.ret \in {"ok", "err"})

\* An OnboardUser call that was answered pending, slept, asked again, was
\* answered done and returned success.
C33_Witness ==
    /\ Polled
    /\ ob.reqs >= 2
    /\ ob.sleeps = ob.reqs - 1
    /\ ob.answers[1] = "pending"
    /\ ob.answers[ob.reqs] = "done"
    /\ ob.ret = "ok"
    /\ onboardingDone

\* The step made a successful RefreshToken call.
RefreshedNow ==
    /\ Len(steps') > Len(steps)
    /\ \E i \in (Len(steps) + 1)..Len(steps') :
          steps'[i] = [step |-> "refresh", ok |-> TRUE]

\* The credential in memory after the step is the one of the credential file
\* (the refresh token tells the sources apart).
FromFileAfter ==
    /\ credentials' # NoToken
    /\ credentials'[1].RefreshToken = "rt-file"

\* The file after the step holds the token fields of the credential in
\* memory after the step.
WrittenBack ==
    /\ credFile'.kind = "json"
    /\ "token" \in DOMAIN credFile'.obj
    /\ credFile'.obj["token"] = credentials'[1].AccessToken
    /\ credFile'.obj["refresh_token"] = credentials'[1].RefreshToken
    /\ "expiry" \in DOMAIN credFile'.obj
    /\ credFile'.obj["expiry"] = credentials'[1].Expiry

\* C34: every step that refreshes a credential loaded from the credential
\* file, in loadFileCredentials or later in a request, leaves the refreshed
\* token fields in the file, and a project_id the file had is still there.
C34_FileRefreshWrittenBack ==
    [][(RefreshedNow /\ FromFileAfter) =>
          /\ WrittenBack
          /\ getProjectIDFromFile(credFile) # "" =>
                getProjectIDFromFile(credFile') = getProjectIDFromFile(credFile)]_vars

\* C35: after BuildGeminiPayloadFromNative has returned, the caller's request
\* object reads as it did before the call, its generationConfig and tools
\* included.
C35_NativeRequestUntouched ==
    (pyPath = "native" /\ pyCaller # <<>>) => pyCaller[1] = pyBody

\* The step in which onboardingDone is set saw the probe report a tier or an
\* onboardUser answer report done.
FlagSetForCause ==
    (~onboardingDone /\ onboardingDone') =>
        /\ ob'.called
        /\ \/ ob'.tier
           \/ (ob'.reqs > 0 /\ ob'.answers[ob'.reqs] = "done")

\* C36: after an OnboardUser call that returned an error onboardingDone is
\* false, so that the next request goes through the handshake again; the
\* flag becomes true only in a step where the probe reported an assigned
\* tier or an onboarding answer reported done; once true it stays true.
C36_FlagAfterFailure ==
    /\ []((ob.called /\ ob.ret = "err") => ~onboardingDone)
    /\ [][FlagSetForCause]_vars
    /\ [][onboardingDone => onboardingDone']_vars

\* C37: every GetCredentials call that returns a credential leaves it as the
\* process-wide credential, and that credential holds a non-empty access
\* token that has not expired at the time of the return; in particular an
\* expired environment or file credential whose refresh failed is not
\* returned as a success.
C37_AcquiredCredentialValid ==
    [][(~acq.called /\ acq'.called /\ acq'.ret = "ok") =>
          /\ credentials' # NoToken
          /\ credentials' = acq'.after
          /\ credentials'[1].AccessToken # ""
          /\ Valid(credentials'[1], now')]_vars

\* The step made a RefreshToken call that failed.
RefreshFailedNow ==
    /\ Len(steps') > Len(steps)
    /\ \E i \in (Len(steps) + 1)..Len(steps') :
          steps'[i] = [step |-> "refresh", ok |-> FALSE]

\* The credential the failed call was given is as it was: the token in
\* memory, or in GetCredentials the token just built from the blob or file.
CredentialKept ==
    IF pc = "creds"
    THEN credentials'[1] = tokenFromJSON(IF acq'.envParsed THEN envCreds.obj
                                         ELSE credFile.obj)
    ELSE credentials' = credentials

\* C38: a step in which RefreshToken fails leaves the credential it was
\* given with the access token, refresh token, token type and expiry it had,
\* and the failed refresh writes nothing to the credential file: the file is
\* as it was, unless the step is the discoverProjectID call that went on
\* after the failure and found a project, whose one write is the save of
\* that project with the unchanged credential.
C38_FailedRefreshChangesNothing ==
    [][RefreshFailedNow =>
          /\ CredentialKept
          /\ \/ credFile' = credFile
             \/ /\ pc = "project"
                /\ res'.probed
                /\ res'.ret = "ok"
                /\ credFile' = SaveCredentials(credFile, credsFromEnv,
                                               credentials[1], "p-api")]_vars

\* A request whose refresh (SendGeminiRequest 49) failed: the credential and
\* the file still hold the expired token.
C38_Witness ==
    /\ caller = "request"
    /\ pc = "done"
    /\ result = "token refresh failed"
    /\ steps[Len(steps)] = [step |-> "refresh", ok |-> FALSE]
    /\ credentials[1].AccessToken = "at-file"
    /\ ~Valid(credentials[1], now)
    /\ credFile.kind = "json"
    /\ credFile.obj["token"] = "at-file"

\* The last GetCredentials call reached startOAuthFlow after an earlier
\* browser flow of this process had ended (sharedBefore[5] is the callback
\* registration the call found).
LaterFlow ==
    /\ acq.called
    /\ acq.allow
    /\ acq.source \notin {"memory", "env", "file"}
    /\ acq.sharedBefore[5]

\* C39: a GetCredentials call that starts the browser flow after an earlier
\* flow has ended (with a token, with no code, or with a failed exchange)
\* runs it as the first one ran: it ends with a token or with an error, and
\* does not panic.
C39_FlowRunsAgain ==
    LaterFlow => acq.ret \in {"ok", "err"}

(***************************************************************************)
(* C2: for every base model and every valid non-empty flag combination,     *)
(* extracting the base name from the derived variant name gives back the    *)
(* base name, so the payload's model name carries no variant suffix.        *)
(* (Stated as in the claim; the code violates it for the two-suffix         *)
(* variants, where only the last suffix is cut off.)                        *)
(***************************************************************************)
C2_BaseNameRoundTrip ==
    (nmPc = "built" /\ nmFlags # {}) => nmOut = nmBase

=============================================================================
